---- MODULE Spec2Model ----
(***************************************************************************)
(* A model of the someip-rs core: the session counter, the connection      *)
(* pool (sync and async), the managed TCP client, the SOME/IP-TP           *)
(* segmenter and reassembler, and the SOME/IP-SD client and server.        *)
(*                                                                         *)
(* Each subsystem has its own variables and its own specification; a       *)
(* specification leaves the variables of the other subsystems at their     *)
(* initial values.                                                         *)
(***************************************************************************)
EXTENDS Integers, Sequences, FiniteSets, TLC

VARIABLES
    \* ---- TcpClient session counter (transport/tcp.rs)
    session_counter,    \* AtomicU16
    session_calls,      \* number of next_session_id calls made so far
    session_last,       \* value returned by the latest call (0: no call yet)
    session_threads,    \* the calls of next_session_id in progress, per thread
    \* ---- ConnectionPool / AsyncConnectionPool (connection/pool*.rs)
    pool_kind,          \* "sync" | "async": which pool was constructed
    pool_config,        \* PoolConfig
    connections,        \* PoolInner.connections: addr -> Vec<PoolEntry>
    handles,            \* live PooledTcpClient borrow handles
    pending_returns,    \* async: tasks spawned by Drop, not yet run
    next_client,        \* identity of the next transport to be opened
    now,                \* Instant::now()
    pool_result,        \* outcome of the latest pool operation
    lockstep,           \* a sync and an async pool taken through the same operations
    \* ---- ManagedTcpClient (connection/managed_tcp.rs)
    m_config,           \* ConnectionConfig: auto_reconnect and the RetryPolicy
    m_state,            \* ConnectionState
    m_stream,           \* stream.is_some()
    m_client_id,        \* ClientId stamped on requests
    m_session_counter,  \* AtomicU16
    m_reconnect_attempts,
    m_pc,               \* "idle", or the blocking read the client is in
    m_request,          \* header ids stamped on the request being awaited
    m_reads,            \* messages read_message has returned to the client
    m_ops,              \* number of public operations started so far
    m_discarded,        \* messages call() read and dropped, with the request awaited
    m_result,           \* outcome of the latest public operation
    \* ---- SOME/IP-TP segmenter and TpReassembler (tp/segment.rs, tp/reassembly.rs)
    tp_message,         \* the message handed to segment_message
    tp_other,           \* a second message segmented, of another key
    tp_max_segment_payload, \* the max_segment_payload handed to segment_message
    tp_pending,         \* segments of tp_message and tp_other not fed yet
    tp_fed,             \* TP offsets of the segments fed so far from tp_pending, in feed order
    tp_feeds,           \* number of feed calls made so far
    contexts,           \* TpReassembler.contexts: ReassemblyKey -> ReassemblyContext
    tp_timeout,         \* TpReassembler.timeout
    tp_now,             \* the clock Instant::now() reads
    tp_last,            \* the latest operation on the reassembler and its outcome
    \* ---- SdServer and SdClient (sd/server.rs, sd/client.rs)
    offered_services,   \* SdServer.offered_services: (ServiceId, InstanceId) -> OfferedService
    subscriptions,      \* SdServer.subscriptions: SubscriptionKey -> Subscription
    sds_result,         \* the latest operation on the server, what it sent and returned
    services,           \* SdClient.services: (ServiceId, InstanceId) -> ServiceInfo
    sdc_result,         \* the latest operation on the client and what it returned
    sdc_wait,           \* the wait_for_service in progress, and the events it took
    sd_now,             \* the clock Instant::now() reads
    \* ---- message codec (header.rs, message.rs, codec.rs)
    c_messages,         \* the messages written, in order
    c_wire,             \* the bytes written and not yet read or fed
    reader,             \* MessageReader: buffer and position
    c_yielded,          \* the messages the reader has yielded so far
    c_last              \* the latest codec operation and what it returned

sessionVars == <<session_counter, session_calls, session_last, session_threads>>
poolVars == <<pool_kind, pool_config, connections, handles, pending_returns,
              next_client, now, pool_result>>
lockstepVars == <<lockstep>>
managedVars == <<m_config, m_state, m_stream, m_client_id, m_session_counter,
                 m_reconnect_attempts, m_pc, m_request, m_reads, m_ops,
                 m_discarded, m_result>>
tpVars == <<tp_message, tp_other, tp_max_segment_payload, tp_pending, tp_fed, tp_feeds, contexts,
           tp_timeout, tp_now, tp_last>>
sdServerVars == <<offered_services, subscriptions, sds_result>>
sdClientVars == <<services, sdc_result, sdc_wait>>
codecVars == <<c_messages, c_wire, reader, c_yielded, c_last>>
vars == <<sessionVars, poolVars, lockstepVars, managedVars, tpVars, sdServerVars, sdClientVars,
          sd_now, codecVars>>

\* What an action of one subsystem leaves alone: the other subsystems.
sdVars == <<sdServerVars, sdClientVars, sd_now>>
SessionFrame == UNCHANGED <<poolVars, managedVars, tpVars, sdVars, codecVars, lockstepVars>>
PoolFrame == UNCHANGED <<sessionVars, managedVars, tpVars, sdVars, codecVars, lockstepVars>>
ManagedFrame == UNCHANGED <<sessionVars, poolVars, tpVars, sdVars, codecVars, lockstepVars>>
TpFrame == UNCHANGED <<sessionVars, poolVars, managedVars, sdVars, codecVars, lockstepVars>>
SdServerFrame == UNCHANGED <<sessionVars, poolVars, managedVars, tpVars, sdClientVars,
                            codecVars, lockstepVars>>
SdClientFrame == UNCHANGED <<sessionVars, poolVars, managedVars, tpVars, sdServerVars,
                            codecVars, lockstepVars>>
CodecFrame == UNCHANGED <<sessionVars, poolVars, managedVars, tpVars, sdVars, lockstepVars>>
LockstepFrame == UNCHANGED <<sessionVars, managedVars, tpVars, sdVars, codecVars>>

(***************************************************************************)
(* Session counter                                                         *)
(***************************************************************************)

\* AtomicU16: fetch_add wraps modulo 2^16.
U16 == 65536

\* Number of next_session_id calls explored (two wrap-arounds and a bit).
MaxSessionCalls == 131080

\* Number of threads that call next_session_id on one counter.
MaxThreads == 2

fetch_add(counter) == (counter + 1) % U16

next_session_id_noskip(counter) ==
    [id |-> counter, counter |-> fetch_add(counter)]

\* TcpClient::next_session_id: the returned SessionId and the counter left.
next_session_id(counter) ==
    LET id == counter
    IN  IF id = 0
        THEN [id |-> 1, counter |-> 2]
        ELSE [id |-> id, counter |-> fetch_add(counter)]

\* One call of next_session_id.
NextSessionId ==
    /\ session_calls < MaxSessionCalls
    /\ LET r == next_session_id(session_counter)
       IN  /\ session_counter' = r.counter
           /\ session_last' = r.id
    /\ session_calls' = session_calls + 1
    /\ UNCHANGED session_threads
    /\ SessionFrame

SessionNext == NextSessionId

\* C10: used sequentially from the initial value 1, the k-th call of
\* next_session_id returns ((k-1) mod 65535) + 1: 1, 2, ..., 0xFFFF, 1, 2, ...;
\* 0 is never returned and the value after 0xFFFF is 1.
C10_SessionSequence ==
    session_calls >= 1 =>
        /\ session_last = ((session_calls - 1) % (U16 - 1)) + 1
        /\ session_last # 0

\* The call after the one that returned 0xFFFF has been made and returned 1.
C10_Wrapped ==
    /\ session_calls = U16
    /\ session_last = 1

\* ---- next_session_id called from several threads

\* The threads that share the counter, and the calls they make in one run.
Threads == 1..MaxThreads
MaxConcurrentCalls == 5

\* No call in progress, none returned.
Threads_new ==
    [pc |-> [t \in Threads |-> "idle"], id |-> [t \in Threads |-> 0], returned |-> <<>>]

\* The counter values the threads start from: the initial one, and one the
\* counter holds shortly before it wraps (after 65533 calls).
StartCounters == {1, U16 - 2}

\* session_counter.fetch_add(1, Relaxed) of thread t: one atomic step that
\* yields the value read.
FetchAdd(t) ==
    /\ session_threads.pc[t] = "idle"
    /\ session_calls < MaxConcurrentCalls
    /\ session_calls' = session_calls + 1
    /\ session_counter' = fetch_add(session_counter)
    /\ session_threads' = [session_threads EXCEPT !.pc[t] = "fetched",
                                                  !.id[t] = session_counter]
    /\ UNCHANGED session_last
    /\ SessionFrame

\* The rest of next_session_id of thread t: on id 0, store(2) and return
\* SessionId(1); else return SessionId(id).
StoreAndReturn(t) ==
    /\ session_threads.pc[t] = "fetched"
    /\ LET id == session_threads.id[t]
           returns == IF id = 0 THEN 1 ELSE id
       IN  /\ session_counter' = IF id = 0 THEN 2 ELSE session_counter
           /\ session_last' = returns
           /\ session_threads' = [session_threads EXCEPT
                                     !.pc[t] = "idle",
                                     !.returned = Append(@, returns)]
    /\ UNCHANGED session_calls
    /\ SessionFrame

SessionThreadsNext ==
    \/ \E t \in Threads : FetchAdd(t)
    \/ \E t \in Threads : StoreAndReturn(t)

\* No call of next_session_id returns 0, under any interleaving.
NeverZero == \A i \in DOMAIN session_threads.returned : session_threads.returned[i] # 0

\* C37: next_session_id called concurrently by several threads on one
\* counter, under every interleaving: no call returns 0, and no two calls
\* out of any 65535 consecutive calls return the same SessionId.
C37_LockFreeUnique ==
    /\ NeverZero
    /\ \A i, j \in DOMAIN session_threads.returned :
          i # j => session_threads.returned[i] # session_threads.returned[j]

(***************************************************************************)
(* Connection pool                                                         *)
(***************************************************************************)

Addrs == {"A:1", "B:1"}

\* Largest max_connections_per_endpoint explored.
MaxPoolLimit == 2
\* Number of transports that may be opened in one behaviour.
MaxClients == 3
\* Clock range.
MaxTime == 2
\* idle_timeout values explored are 1..MaxIdle
MaxIdle == 1

NoClient == 0

PoolConfigs ==
    [max_connections_per_endpoint : 0..MaxPoolLimit,
     idle_timeout : 1..MaxIdle,
     max_lifetime : {[some |-> FALSE, d |-> 0]} \cup
                    {[some |-> TRUE, d |-> d] : d \in {MaxIdle}}]

\* PoolEntry::new / AsyncPoolEntry::new
PoolEntry_new(client, t) ==
    [client |-> client, created_at |-> t, last_used |-> t, in_use |-> FALSE]

\* PoolEntry::is_expired, at time t
is_expired(e, config, t) ==
    \/ t - e.last_used > config.idle_timeout
    \/ /\ config.max_lifetime.some
       /\ t - e.created_at > config.max_lifetime.d

Remove(s, pos) == [i \in 1..(Len(s) - 1) |-> IF i < pos THEN s[i] ELSE s[i + 1]]

\* iter().position(|e| !e.in_use): 0 when there is none
position_not_in_use(entries) ==
    IF \E i \in 1..Len(entries) : ~entries[i].in_use
    THEN CHOOSE i \in 1..Len(entries) :
            /\ ~entries[i].in_use
            /\ \A j \in 1..(i - 1) : entries[j].in_use
    ELSE 0

get_connection_shared(entries, config, t) ==
    LET kept == SelectSeq(entries, LAMBDA e : ~e.in_use /\ ~is_expired(e, config, t))
        marked == [i \in 1..Len(kept) |-> [kept[i] EXCEPT !.in_use = TRUE, !.last_used = t]]
    IN  [entries |-> marked, client |-> IF kept # <<>> THEN kept[1].client ELSE NoClient]

\* PoolInner::get_connection (sync): the entries left and the client taken
get_connection(entries, config, t) ==
    LET kept == SelectSeq(entries, LAMBDA e : ~e.in_use /\ ~is_expired(e, config, t))
        \* the loop marks every available entry as in use
        marked == [i \in 1..Len(kept) |->
                      IF ~kept[i].in_use
                      THEN [kept[i] EXCEPT !.in_use = TRUE, !.last_used = t]
                      ELSE kept[i]]
        pos == position_not_in_use(marked)
    IN  IF pos # 0
        THEN [entries |-> Remove(marked, pos), client |-> marked[pos].client]
        ELSE [entries |-> marked, client |-> NoClient]

\* AsyncPoolInner::get_connection
async_get_connection(entries, config, t) ==
    LET kept == SelectSeq(entries, LAMBDA e : ~is_expired(e, config, t))
    IN  IF kept # <<>>
        THEN [entries |-> Tail(kept), client |-> Head(kept).client]
        ELSE [entries |-> kept, client |-> NoClient]

return_connection_at_limit(entries, config, client, t) ==
    IF Len(entries) <= config.max_connections_per_endpoint
    THEN Append(entries, PoolEntry_new(client, t))
    ELSE entries

\* PoolInner::return_connection / AsyncPoolInner::return_connection
return_connection(entries, config, client, t) ==
    IF Len(entries) < config.max_connections_per_endpoint
    THEN Append(entries, PoolEntry_new(client, t))
    ELSE entries

\* PoolInner::connection_count
connection_count(addr) == Len(connections[addr])

\* PoolInner::cleanup, for one endpoint's list
cleanup(entries, config, t) ==
    SelectSeq(entries, LAMBDA e : ~is_expired(e, config, t))

\* The clients of the entries get(addr) could hand out: idle and not expired.
IdleFresh(addr) ==
    {connections[addr][i].client : i \in
        {j \in 1..Len(connections[addr]) :
            /\ ~connections[addr][j].in_use
            /\ ~is_expired(connections[addr][j], pool_config, now)}}

\* The part of get shared by both pools, given the outcome of get_connection
\* and whether the transport open (TcpClient::connect_timeout) succeeds.
GetWith(addr, r, connect_ok) ==
    LET outstanding == Cardinality({h \in handles : h.addr = addr})
        before == [idle |-> IdleFresh(addr), outstanding |-> outstanding]
    IN
    IF r.client # NoClient
    THEN /\ connections' = [connections EXCEPT ![addr] = r.entries]
         /\ handles' = handles \cup {[client |-> r.client, addr |-> addr]}
         /\ pool_result' = [op |-> "get", addr |-> addr, outcome |-> "ok",
                            client |-> r.client, opened |-> FALSE, before |-> before]
         /\ UNCHANGED next_client
    ELSE IF Len(r.entries) >= pool_config.max_connections_per_endpoint
    THEN /\ connections' = [connections EXCEPT ![addr] = r.entries]
         /\ pool_result' = [op |-> "get", addr |-> addr, outcome |-> "limit",
                            client |-> NoClient, opened |-> FALSE, before |-> before]
         /\ UNCHANGED <<handles, next_client>>
    ELSE IF connect_ok
    THEN /\ next_client <= MaxClients
         /\ connections' = [connections EXCEPT ![addr] = r.entries]
         /\ handles' = handles \cup {[client |-> next_client, addr |-> addr]}
         /\ next_client' = next_client + 1
         /\ pool_result' = [op |-> "get", addr |-> addr, outcome |-> "ok",
                            client |-> next_client, opened |-> TRUE, before |-> before]
    ELSE /\ connections' = [connections EXCEPT ![addr] = r.entries]
         /\ pool_result' = [op |-> "get", addr |-> addr, outcome |-> "io_error",
                            client |-> NoClient, opened |-> FALSE, before |-> before]
         /\ UNCHANGED <<handles, next_client>>

\* ConnectionPool::get
Get(addr, connect_ok) ==
    /\ pool_kind = "sync"
    /\ GetWith(addr, get_connection(connections[addr], pool_config, now), connect_ok)
    /\ UNCHANGED <<pool_kind, pool_config, pending_returns, now>>
    /\ PoolFrame

\* AsyncConnectionPool::get
AsyncGet(addr, connect_ok) ==
    /\ pool_kind = "async"
    /\ GetWith(addr, async_get_connection(connections[addr], pool_config, now), connect_ok)
    /\ UNCHANGED <<pool_kind, pool_config, pending_returns, now>>
    /\ PoolFrame

\* Drop for PooledTcpClient; AsyncPooledTcpClient::release
DropHandle(h) ==
    /\ h \in handles
    /\ handles' = handles \ {h}
    /\ connections' = [connections EXCEPT ![h.addr] =
            return_connection(connections[h.addr], pool_config, h.client, now)]
    /\ pool_result' = [op |-> "return", addr |-> h.addr, client |-> h.client]
    /\ UNCHANGED <<pool_kind, pool_config, pending_returns, next_client, now>>
    /\ PoolFrame

\* Drop for AsyncPooledTcpClient: the return is handed to a spawned task
AsyncDrop(h) ==
    /\ pool_kind = "async"
    /\ h \in handles
    /\ handles' = handles \ {h}
    /\ pending_returns' = pending_returns \cup {h}
    /\ pool_result' = [op |-> "drop", addr |-> h.addr, client |-> h.client]
    /\ UNCHANGED <<pool_kind, pool_config, connections, next_client, now>>
    /\ PoolFrame

\* The task spawned by Drop for AsyncPooledTcpClient
AsyncReturnTask(h) ==
    /\ h \in pending_returns
    /\ pending_returns' = pending_returns \ {h}
    /\ connections' = [connections EXCEPT ![h.addr] =
            return_connection(connections[h.addr], pool_config, h.client, now)]
    /\ pool_result' = [op |-> "return", addr |-> h.addr, client |-> h.client]
    /\ UNCHANGED <<pool_kind, pool_config, handles, next_client, now>>
    /\ PoolFrame

\* ConnectionPool::cleanup / AsyncConnectionPool::cleanup
Cleanup ==
    /\ \E a \in Addrs : connections[a] # <<>>
    /\ connections' = [a \in Addrs |-> cleanup(connections[a], pool_config, now)]
    /\ pool_result' = [op |-> "cleanup",
                       removed |-> Len(connections["A:1"]) + Len(connections["B:1"])
                                   - Len(connections'["A:1"]) - Len(connections'["B:1"])]
    /\ UNCHANGED <<pool_kind, pool_config, handles, pending_returns, next_client, now>>
    /\ PoolFrame

\* ConnectionPool::clear / AsyncConnectionPool::clear
Clear ==
    /\ \E a \in Addrs : connections[a] # <<>>
    /\ connections' = [a \in Addrs |-> <<>>]
    /\ pool_result' = [op |-> "clear"]
    /\ UNCHANGED <<pool_kind, pool_config, handles, pending_returns, next_client, now>>
    /\ PoolFrame

\* Time passes.
PoolTick ==
    /\ now < MaxTime
    /\ now' = now + 1
    /\ UNCHANGED <<pool_kind, pool_config, connections, handles, pending_returns,
                   next_client, pool_result>>
    /\ PoolFrame

\* Connections to addr that are open: held by a borrow handle, owned by a
\* pending return task, or stored in the pool.
Live(addr) ==
    Cardinality({h \in handles : h.addr = addr})
    + Cardinality({h \in pending_returns : h.addr = addr})
    + Len(connections[addr])

PoolNext ==
    \/ \E a \in Addrs, ok \in BOOLEAN : Get(a, ok)
    \/ \E a \in Addrs, ok \in BOOLEAN : AsyncGet(a, ok)
    \/ \E h \in handles : DropHandle(h)
    \/ \E h \in handles : AsyncDrop(h)
    \/ \E h \in pending_returns : AsyncReturnTask(h)
    \/ Cleanup
    \/ Clear
    \/ PoolTick

\* C1: with max_connections_per_endpoint = N the number of live connections
\* to an endpoint (borrowed plus stored in the pool) never exceeds N, and a
\* get made while N handles are outstanding does not succeed.
C1_PoolCapacity ==
    /\ \A a \in Addrs : Live(a) <= pool_config.max_connections_per_endpoint
    /\ (pool_result.op = "get"
         /\ pool_result.before.outstanding >= pool_config.max_connections_per_endpoint)
        => pool_result.outcome = "limit"

\* C2: for every max_connections_per_endpoint >= 1, a get(addr) of the sync
\* pool made while a returned, unexpired connection to addr is stored succeeds with one of those connections and
\* opens no transport.
C2_ReuseReturned ==
    (/\ pool_kind = "sync"
     /\ pool_config.max_connections_per_endpoint >= 1
     /\ pool_result.op = "get"
     /\ pool_result.before.idle # {})
        => /\ pool_result.outcome = "ok"
           /\ ~pool_result.opened
           /\ pool_result.client \in pool_result.before.idle

\* The clients held by borrow handles, owned by pending return tasks, and
\* stored in the list of an endpoint.
Held == {h.client : h \in handles}
Returning == {h.client : h \in pending_returns}
Stored(addr) == {connections[addr][i].client : i \in 1..Len(connections[addr])}

\* C26: under any interleaving of get, handle drop, cleanup and clear every
\* connection is in one place only, in the list of one endpoint, once, or
\* with one borrow handle (or with the task that returns it); a get never
\* hands out a connection a handle holds.
C26_ExclusiveOwnership ==
    /\ [](/\ \A h1, h2 \in handles \cup pending_returns : h1.client = h2.client => h1 = h2
          /\ Held \cap Returning = {}
          /\ \A a \in Addrs :
                /\ Stored(a) \cap (Held \cup Returning) = {}
                /\ Cardinality(Stored(a)) = Len(connections[a])
                /\ \A b \in Addrs \ {a} : Stored(a) \cap Stored(b) = {})
    /\ [][\A a \in Addrs, connect_ok \in BOOLEAN :
            ((Get(a, connect_ok) \/ AsyncGet(a, connect_ok)) /\ pool_result'.outcome = "ok")
                => pool_result'.client \notin Held \cup Returning]_vars

\* A get of the sync pool succeeded while a connection was stored for the
\* endpoint and another was held.
C26_GetBesideStored ==
    /\ pool_kind = "sync"
    /\ pool_result.op = "get"
    /\ pool_result.outcome = "ok"
    /\ Cardinality(handles) = 2
    /\ connections[pool_result.addr] # <<>>

\* C28: the list of an endpoint never holds more than
\* max_connections_per_endpoint entries, and a connection returned while the
\* list is at that size is dropped, the list left as it is.
C28_IdleListBounded ==
    /\ [](\A a \in Addrs : connection_count(a) <= pool_config.max_connections_per_endpoint)
    /\ [][\A h \in handles \cup pending_returns :
            (/\ DropHandle(h) \/ AsyncReturnTask(h)
             /\ connection_count(h.addr) >= pool_config.max_connections_per_endpoint)
                => /\ connections' = connections
                   /\ h.client \notin Held' \cup Returning']_vars

\* A connection was returned to a list that was full, and is in it no more
\* than before.
C28_ReturnedPastCapacity ==
    /\ pool_result.op = "return"
    /\ pool_config.max_connections_per_endpoint >= 1
    /\ connection_count(pool_result.addr) = pool_config.max_connections_per_endpoint
    /\ pool_result.client \notin Stored(pool_result.addr)

\* ---- the sync and the async pool side by side, for one endpoint

\* A pool that has handed out nothing: the list of the endpoint, the clients
\* of the borrow handles in the order they were handed out, the identity of
\* the next transport, and when each transport was opened.
Pool_new ==
    [entries |-> <<>>, handles |-> <<>>, next |-> 1, opened_at |-> [c \in 1..MaxClients |-> 0]]

\* ConnectionPool::get (kind "sync") and AsyncConnectionPool::get: the pool
\* left, whether a stored connection was reused, a transport opened, the
\* limit reached or the open failed, and the client handed out.
pool_get(kind, pool, config, t, connect_ok) ==
    LET r == IF kind = "sync" THEN get_connection(pool.entries, config, t)
             ELSE async_get_connection(pool.entries, config, t)
        left == [pool EXCEPT !.entries = r.entries]
    IN  IF r.client # NoClient
        THEN [pool |-> [left EXCEPT !.handles = Append(pool.handles, r.client)],
              outcome |-> "reused", client |-> r.client]
        ELSE IF Len(r.entries) >= config.max_connections_per_endpoint
        THEN [pool |-> left, outcome |-> "limit", client |-> NoClient]
        ELSE IF connect_ok
        THEN [pool |-> [left EXCEPT !.handles = Append(pool.handles, pool.next),
                                    !.next = pool.next + 1,
                                    !.opened_at[pool.next] = t],
              outcome |-> "opened", client |-> pool.next]
        ELSE [pool |-> left, outcome |-> "io_error", client |-> NoClient]

\* Drop of the borrow handle handed out i-th among those held (release of
\* the async handle): return_connection of its client.
pool_return(pool, config, i, t) ==
    IF i > Len(pool.handles) THEN pool
    ELSE [pool EXCEPT !.handles = Remove(pool.handles, i),
                      !.entries = return_connection(pool.entries, config, pool.handles[i], t)]

\* get(addr) on both pools
LockstepGet(connect_ok) ==
    LET s == pool_get("sync", lockstep.sync, pool_config, now, connect_ok)
        a == pool_get("async", lockstep.async, pool_config, now, connect_ok)
    IN  /\ lockstep.sync.next <= MaxClients
        /\ lockstep.async.next <= MaxClients
        /\ lockstep' = [sync |-> s.pool, async |-> a.pool,
                        last |-> [op |-> "get", at |-> now,
                                  sync |-> [outcome |-> s.outcome, client |-> s.client],
                                  async |-> [outcome |-> a.outcome, client |-> a.client]]]
        /\ UNCHANGED poolVars
        /\ LockstepFrame

\* the i-th handle held is returned on both pools
LockstepReturn(i) ==
    /\ i <= Len(lockstep.sync.handles) \/ i <= Len(lockstep.async.handles)
    /\ lockstep' = [sync |-> pool_return(lockstep.sync, pool_config, i, now),
                    async |-> pool_return(lockstep.async, pool_config, i, now),
                    last |-> [op |-> "return", at |-> now]]
    /\ UNCHANGED poolVars
    /\ LockstepFrame

\* cleanup() on both pools
LockstepCleanup ==
    /\ lockstep' = [sync |-> [lockstep.sync EXCEPT
                                 !.entries = cleanup(lockstep.sync.entries, pool_config, now)],
                    async |-> [lockstep.async EXCEPT
                                 !.entries = cleanup(lockstep.async.entries, pool_config, now)],
                    last |-> [op |-> "cleanup", at |-> now]]
    /\ UNCHANGED poolVars
    /\ LockstepFrame

LockstepNext ==
    \/ \E connect_ok \in BOOLEAN : LockstepGet(connect_ok)
    \/ \E i \in 1..MaxClients : LockstepReturn(i)
    \/ LockstepCleanup
    \/ PoolTick

\* The age of the connection of a stored entry since it was opened exceeds
\* max_lifetime.
PastLifetime(pool, entry) ==
    /\ pool_config.max_lifetime.some
    /\ now - pool.opened_at[entry.client] > pool_config.max_lifetime.d

\* C27: an entry is expired when now - last_used > idle_timeout or
\* now - created_at > max_lifetime, created_at being the time the connection
\* was opened: whatever was borrowed and returned in between, get hands out
\* no stored connection opened more than max_lifetime ago, and cleanup
\* leaves none stored.
C27_LifetimeSinceOpened ==
    \A kind \in {"sync", "async"} :
        /\ (lockstep.last.op = "get" /\ lockstep.last[kind].outcome = "reused"
              /\ pool_config.max_lifetime.some)
              => lockstep.last.at - lockstep[kind].opened_at[lockstep.last[kind].client]
                    <= pool_config.max_lifetime.d
        /\ (lockstep.last.op = "cleanup" /\ lockstep.last.at = now)
              => \A i \in DOMAIN lockstep[kind].entries :
                    ~PastLifetime(lockstep[kind], lockstep[kind].entries[i])

\* C29: taken through the same gets, returns and cleanups with the same
\* configuration and clock, the sync and the async pool agree at every step
\* on whether get succeeds, on whether it reuses a stored connection or
\* opens one, and on the number of entries stored.
C29_PoolsAgree ==
    /\ lockstep.last.op = "get" => lockstep.last.sync.outcome = lockstep.last.async.outcome
    /\ Len(lockstep.sync.entries) = Len(lockstep.async.entries)

(***************************************************************************)
(* Managed TCP client                                                      *)
(***************************************************************************)

\* Largest max_retries explored.
MaxRetries == 1
\* Public operations started in one behaviour.
MaxOps == 2
\* Messages the peer writes in one behaviour.
MaxMsgs == 2
\* Failed connection attempts in a row the network may produce.
MaxFails == 1

ClientIds == {1, 2}

IoErrorKinds == {"ConnectionReset", "BrokenPipe", "TimedOut", "WouldBlock", "UnexpectedEof"}
\* An Io error of one of the kinds, or an error that is not SomeIpError::Io
\* (a header that read_message cannot decode).
Errors == [io : {TRUE}, kind : IoErrorKinds] \cup {[io |-> FALSE, kind |-> "InvalidHeader"]}
NoError == [io |-> FALSE, kind |-> "none"]
NotConnected == [io |-> TRUE, kind |-> "NotConnected"]
IoError == [io |-> TRUE, kind |-> "ConnectError"]

\* The configurations tried: every retry policy with auto_reconnect set, and
\* one without it (the policy is read only under auto_reconnect).
ManagedConfigs ==
    [auto_reconnect : {TRUE},
     max_retries : {[some |-> FALSE, n |-> 0]} \cup
                   {[some |-> TRUE, n |-> n] : n \in 0..MaxRetries},
     retry_on_timeout : BOOLEAN,
     retry_on_connection_reset : BOOLEAN]
    \cup {[auto_reconnect |-> FALSE, max_retries |-> [some |-> TRUE, n |-> MaxRetries],
           retry_on_timeout |-> TRUE, retry_on_connection_reset |-> TRUE]}

request_id_session_only(client_id, session_id) == session_id

\* SomeIpHeader::request_id
request_id(client_id, session_id) == client_id * U16 + session_id

should_retry_inclusive(policy, attempt) ==
    IF policy.max_retries.some THEN attempt <= policy.max_retries.n ELSE TRUE

\* RetryPolicy::should_retry
should_retry(policy, attempt) ==
    IF policy.max_retries.some THEN attempt < policy.max_retries.n ELSE TRUE

\* The fields of the client the connection logic reads and writes; connects
\* counts the connection attempts made by the operation in progress, retries
\* those of them made by try_reconnect, and handled is the error handle_error
\* was called with.
Client ==
    [state |-> m_state, stream |-> m_stream,
     reconnect_attempts |-> m_reconnect_attempts, connects |-> 0, err |-> NoError,
     retries |-> 0, handled |-> NoError]

do_connect_keep_attempts(c, connect_ok) ==
    IF connect_ok
    THEN [c EXCEPT !.stream = TRUE, !.state = "Connected", !.connects = @ + 1,
                   !.err = NoError]
    ELSE [c EXCEPT !.state = "Disconnected", !.connects = @ + 1, !.err = IoError]

\* ManagedTcpClient::do_connect, given the outcome of TcpStream::connect_timeout
do_connect(c, connect_ok) ==
    IF connect_ok
    THEN [c EXCEPT !.stream = TRUE, !.state = "Connected", !.reconnect_attempts = 0,
                   !.connects = @ + 1, !.err = NoError]
    ELSE [c EXCEPT !.state = "Disconnected", !.connects = @ + 1, !.err = IoError]

\* ManagedTcpClient::ensure_connected
ensure_connected(c, connect_ok) ==
    IF c.stream /\ c.state = "Connected"
    THEN [c EXCEPT !.err = NoError]
    ELSE do_connect(c, connect_ok)

RECURSIVE try_reconnect_loop(_, _, _)
\* The while loop of try_reconnect; the first `fails` connection attempts fail.
try_reconnect_loop(c, fails, made) ==
    IF should_retry(m_config, c.reconnect_attempts)
    THEN LET c1 == [c EXCEPT !.state = "Reconnecting", !.reconnect_attempts = @ + 1,
                             !.retries = @ + 1]
             c2 == do_connect(c1, made >= fails)
         IN  IF made >= fails THEN c2 ELSE try_reconnect_loop(c2, fails, made + 1)
    ELSE [c EXCEPT !.state = "Failed", !.err = NotConnected]

\* ManagedTcpClient::try_reconnect
try_reconnect(c, fails) ==
    IF ~m_config.auto_reconnect
    THEN [c EXCEPT !.state = "Failed", !.err = NotConnected]
    ELSE try_reconnect_loop(c, fails, 0)

retryable_any_io(err) == err.io

\* handle_error's classification of the error
retryable(err) ==
    /\ err.io
    /\ CASE err.kind \in {"ConnectionReset", "BrokenPipe"} -> m_config.retry_on_connection_reset
         [] err.kind \in {"TimedOut", "WouldBlock"} -> m_config.retry_on_timeout
         [] OTHER -> FALSE

\* ManagedTcpClient::handle_error: the client left, err the error returned
handle_error(c, err, fails) ==
    LET c0 == [c EXCEPT !.stream = FALSE, !.state = "Disconnected", !.handled = err]
    IN  IF retryable(err) /\ m_config.auto_reconnect
        THEN LET c1 == try_reconnect(c0, fails)
             IN  IF c1.err = NoError THEN [c1 EXCEPT !.err = err] ELSE c1
        ELSE [c0 EXCEPT !.err = err]

\* The client's connection fields take the values of c.
SetClient(c) ==
    /\ m_state' = c.state
    /\ m_stream' = c.stream
    /\ m_reconnect_attempts' = c.reconnect_attempts

Failure(op, c) ==
    [op |-> op, outcome |-> "err", err |-> c.err, connects |-> c.connects,
     retries |-> c.retries, handled |-> c.handled]

StartOp ==
    /\ m_pc = "idle"
    /\ m_ops < MaxOps
    /\ m_ops' = m_ops + 1

\* ManagedTcpClient::set_client_id
SetClientId(id) ==
    /\ StartOp
    /\ id # m_client_id
    /\ m_client_id' = id
    /\ m_result' = [op |-> "set_client_id", outcome |-> "ok", connects |-> 0]
    /\ UNCHANGED <<m_config, m_state, m_stream, m_session_counter, m_reconnect_attempts,
                   m_pc, m_request, m_reads, m_discarded>>
    /\ ManagedFrame

\* ManagedTcpClient::call up to its first read: stamp the ids, connect if
\* needed, write the request. write is NoError or the error write_message returns.
CallStart(connect_ok, write, fails) ==
    /\ StartOp
    /\ LET sid == next_session_id(m_session_counter)
           c1 == ensure_connected(Client, connect_ok)
           c2 == handle_error(c1, write, fails)
       IN  /\ m_session_counter' = sid.counter
           /\ m_request' = [client_id |-> m_client_id, session_id |-> sid.id]
           /\ IF c1.err # NoError
              THEN /\ SetClient(c1)
                   /\ m_result' = Failure("call", c1)
                   /\ m_pc' = "idle"
              ELSE IF write # NoError
              THEN /\ SetClient(c2)
                   /\ m_result' = Failure("call", c2)
                   /\ m_pc' = "idle"
              ELSE /\ SetClient(c1)
                   /\ m_result' = [op |-> "call", outcome |-> "pending",
                                   connects |-> c1.connects]
                   /\ m_pc' = "call"
    /\ UNCHANGED <<m_config, m_client_id, m_reads, m_discarded>>
    /\ ManagedFrame

\* One turn of call's receive loop: read_message returns a message, which
\* carries this or another ClientId, and the SessionId of the request or the
\* one `ahead` of it.
CallRead(client_id, ahead) ==
    /\ m_pc = "call"
    /\ m_reads < MaxMsgs
    /\ m_reads' = m_reads + 1
    /\ LET response == [tag |-> m_reads + 1, client_id |-> client_id,
                        session_id |-> m_request.session_id + ahead]
       IN  IF request_id(response.client_id, response.session_id)
                = request_id(m_request.client_id, m_request.session_id)
           THEN /\ m_result' = [op |-> "call", outcome |-> "ok", msg |-> response,
                                request |-> m_request, client_id |-> m_client_id,
                                connects |-> m_result.connects]
                /\ m_pc' = "idle"
                /\ UNCHANGED m_discarded
           ELSE /\ m_discarded' = m_discarded \cup {[msg |-> response, awaited |-> m_request]}
                /\ UNCHANGED <<m_result, m_pc>>
    /\ UNCHANGED <<m_config, m_state, m_stream, m_client_id, m_session_counter,
                   m_reconnect_attempts, m_request, m_ops>>
    /\ ManagedFrame

\* One turn of call's receive loop: read_message fails.
CallReadError(err, fails) ==
    /\ m_pc = "call"
    /\ LET c == handle_error(Client, err, fails)
       IN  /\ SetClient(c)
           /\ m_result' = Failure("call", [c EXCEPT !.connects = @ + m_result.connects])
    /\ m_pc' = "idle"
    /\ UNCHANGED <<m_config, m_client_id, m_session_counter, m_request, m_reads, m_ops,
                   m_discarded>>
    /\ ManagedFrame

\* ManagedTcpClient::send
Send(connect_ok, write, fails) ==
    /\ StartOp
    /\ LET sid == next_session_id(m_session_counter)
           c1 == ensure_connected(Client, connect_ok)
           c2 == handle_error(c1, write, fails)
       IN  /\ m_session_counter' = sid.counter
           /\ IF c1.err # NoError
              THEN SetClient(c1) /\ m_result' = Failure("send", c1)
              ELSE IF write # NoError
              THEN SetClient(c2) /\ m_result' = Failure("send", c2)
              ELSE SetClient(c1) /\ m_result' = [op |-> "send", outcome |-> "ok",
                                                  connects |-> c1.connects]
    /\ UNCHANGED <<m_config, m_client_id, m_pc, m_request, m_reads, m_discarded>>
    /\ ManagedFrame

\* ManagedTcpClient::receive up to its read
ReceiveStart(connect_ok) ==
    /\ StartOp
    /\ LET c1 == ensure_connected(Client, connect_ok)
       IN  /\ SetClient(c1)
           /\ IF c1.err # NoError
              THEN m_result' = Failure("receive", c1) /\ m_pc' = "idle"
              ELSE /\ m_result' = [op |-> "receive", outcome |-> "pending",
                                   connects |-> c1.connects]
                   /\ m_pc' = "receive"
    /\ UNCHANGED <<m_config, m_client_id, m_session_counter, m_request, m_reads,
                   m_discarded>>
    /\ ManagedFrame

\* receive: read_message returns a message
ReceiveRead(client_id, ahead) ==
    /\ m_pc = "receive"
    /\ m_reads < MaxMsgs
    /\ m_reads' = m_reads + 1
    /\ m_result' = [op |-> "receive", outcome |-> "ok",
                    msg |-> [tag |-> m_reads + 1, client_id |-> client_id,
                             session_id |-> m_request.session_id + ahead],
                    connects |-> m_result.connects]
    /\ m_pc' = "idle"
    /\ UNCHANGED <<m_config, m_state, m_stream, m_client_id, m_session_counter,
                   m_reconnect_attempts, m_request, m_ops, m_discarded>>
    /\ ManagedFrame

\* receive: read_message fails
ReceiveError(err, fails) ==
    /\ m_pc = "receive"
    /\ LET c == handle_error(Client, err, fails)
       IN  /\ SetClient(c)
           /\ m_result' = Failure("receive", [c EXCEPT !.connects = @ + m_result.connects])
    /\ m_pc' = "idle"
    /\ UNCHANGED <<m_config, m_client_id, m_session_counter, m_request, m_reads, m_ops,
                   m_discarded>>
    /\ ManagedFrame

\* ManagedTcpClient::disconnect
disconnect(c) ==
    IF c.stream THEN [c EXCEPT !.stream = FALSE, !.state = "Disconnected"] ELSE c

Disconnect ==
    /\ StartOp
    /\ SetClient(disconnect(Client))
    /\ m_result' = [op |-> "disconnect", outcome |-> "ok", connects |-> 0]
    /\ UNCHANGED <<m_config, m_client_id, m_session_counter, m_pc, m_request, m_reads,
                   m_discarded>>
    /\ ManagedFrame

\* ManagedTcpClient::reconnect
Reconnect(connect_ok) ==
    /\ StartOp
    /\ LET c0 == [disconnect(Client) EXCEPT !.reconnect_attempts = 0]
           c1 == ensure_connected(c0, connect_ok)
       IN  /\ SetClient(c1)
           /\ m_result' = IF c1.err = NoError
                          THEN [op |-> "reconnect", outcome |-> "ok", connects |-> c1.connects]
                          ELSE Failure("reconnect", c1)
    /\ UNCHANGED <<m_config, m_client_id, m_session_counter, m_pc, m_request, m_reads,
                   m_discarded>>
    /\ ManagedFrame

\* How many of the connection attempts that follow the error fail: a choice
\* only where handle_error goes on to reconnect.
Fails(err) == IF retryable(err) /\ m_config.auto_reconnect THEN 0..MaxFails ELSE {0}

\* The ids of the message a read returns: the ClientId of the client or the
\* SessionId of the request (or both), never neither.
ReadInputs == {r \in ClientIds \X {0, 1} : r[1] = m_client_id \/ r[2] = 0}

ManagedNext ==
    \/ \E id \in ClientIds : SetClientId(id)
    \/ \E ok \in BOOLEAN, w \in {NoError} \cup Errors : \E f \in Fails(w) : CallStart(ok, w, f)
    \/ \E r \in ReadInputs : CallRead(r[1], r[2])
    \/ \E e \in Errors : \E f \in Fails(e) : CallReadError(e, f)
    \/ \E ok \in BOOLEAN, w \in {NoError} \cup Errors : \E f \in Fails(w) : Send(ok, w, f)
    \/ \E ok \in BOOLEAN : ReceiveStart(ok)
    \/ \E r \in ReadInputs : ReceiveRead(r[1], r[2])
    \/ \E e \in Errors : \E f \in Fails(e) : ReceiveError(e, f)
    \/ Disconnect
    \/ \E ok \in BOOLEAN : Reconnect(ok)

\* C3: once the state is Failed, call, send and receive leave it Failed and
\* make no connection attempt.
C3_FailedTerminal ==
    [][(m_state = "Failed" /\ m_ops' # m_ops
            /\ m_result'.op \in {"call", "send", "receive"})
        => (m_state' = "Failed" /\ m_result'.connects = 0)]_vars

\* C9: call returns Ok only with a message carrying the ClientId of the client
\* and the SessionId stamped on the request; every message it dropped carried
\* other ids than the request then awaited, and no dropped message is returned.
C9_Correlation ==
    /\ (m_result.op = "call" /\ m_result.outcome = "ok") =>
          /\ m_result.msg.client_id = m_result.request.client_id
          /\ m_result.msg.session_id = m_result.request.session_id
          /\ m_result.request.client_id = m_result.client_id
          /\ m_result.request.session_id # 0
          /\ \A d \in m_discarded : d.msg.tag # m_result.msg.tag
    /\ \A d \in m_discarded :
          \/ d.msg.client_id # d.awaited.client_id
          \/ d.msg.session_id # d.awaited.session_id

\* A call has returned its response after dropping a message that was not it.
C9_ReturnedAfterDiscard ==
    /\ m_result.op = "call"
    /\ m_result.outcome = "ok"
    /\ \E d \in m_discarded : d.awaited = m_result.request

\* The latest operation failed in I/O and handle_error went on to try_reconnect.
Reconnected ==
    /\ m_result.outcome = "err"
    /\ m_result.handled # NoError
    /\ retryable(m_result.handled)
    /\ m_config.auto_reconnect

\* C36: at every return from a public operation of ManagedTcpClient, after
\* any sequence of operations and connection and IO outcomes, the client
\* holds a stream if and only if its state is Connected, and
\* reconnect_attempts is 0 whenever the state is Connected.
C36_StreamIffConnected ==
    m_pc = "idle" =>
        /\ m_stream <=> m_state = "Connected"
        /\ m_state = "Connected" => m_reconnect_attempts = 0

\* An operation has failed, handle_error has reconnected at the second
\* attempt, and the client is back in Connected.
C36_ReconnectedAfterRetries ==
    /\ m_pc = "idle"
    /\ m_result.outcome = "err"
    /\ m_result.retries >= 2
    /\ m_state = "Connected"
    /\ m_stream

\* C11: with max_retries = Some(n) one run of try_reconnect makes at most n
\* connection attempts and ends Connected (stream open, counter reset) if one
\* succeeded and Failed, the retries exhausted, otherwise; reconnect_attempts
\* never exceeds n; should_retry(a) is a < n, and true without a maximum.
C11_BoundedRetry ==
    /\ m_config.max_retries.some =>
          /\ m_reconnect_attempts <= m_config.max_retries.n
          /\ Reconnected => m_result.retries <= m_config.max_retries.n
    /\ Reconnected =>
          \/ m_state = "Connected" /\ m_stream /\ m_result.retries >= 1
                /\ m_reconnect_attempts = 0
          \/ m_state = "Failed" /\ ~m_stream
                /\ ~should_retry(m_config, m_reconnect_attempts)
    /\ \A a \in 0..(MaxRetries + 1) :
          should_retry(m_config, a)
              <=> (m_config.max_retries.some => a < m_config.max_retries.n)

\* A reconnect loop made every attempt the policy allows, all failed.
C11_Exhausted ==
    /\ Reconnected
    /\ m_config.max_retries.some
    /\ m_config.max_retries.n >= 1
    /\ m_result.retries = m_config.max_retries.n
    /\ m_state = "Failed"

\* The latest operation failed in a write or a read: handle_error was called.
Handled == m_result.outcome = "err" /\ m_result.handled # NoError

\* C12: after a call, send or receive that failed in its write or read, the
\* reconnect loop has run (the state left Disconnected for Connected or Failed,
\* with a connection attempt made whenever the policy allows one) if and only
\* if auto_reconnect is set and the error is an I/O error of kind
\* ConnectionReset/BrokenPipe with retry_on_connection_reset, or of kind
\* TimedOut/WouldBlock with retry_on_timeout; after any other error no
\* connection attempt follows, the state is Disconnected and the stream closed.
C12_ErrorClassification ==
    Handled =>
        LET err == m_result.handled
            chosen ==
                /\ m_config.auto_reconnect
                /\ err.io
                /\ \/ err.kind \in {"ConnectionReset", "BrokenPipe"}
                         /\ m_config.retry_on_connection_reset
                   \/ err.kind \in {"TimedOut", "WouldBlock"} /\ m_config.retry_on_timeout
        IN  IF chosen
            THEN /\ m_state \in {"Connected", "Failed"}
                 /\ (m_config.max_retries.some => m_config.max_retries.n >= 1)
                        => m_result.retries >= 1
            ELSE /\ m_result.retries = 0
                 /\ m_state = "Disconnected"
                 /\ ~m_stream

\* A read or write timed out and the reconnect that followed succeeded.
C12_ReconnectedOnTimeout ==
    /\ Handled
    /\ m_result.handled.kind \in {"TimedOut", "WouldBlock"}
    /\ m_state = "Connected"
    /\ m_result.retries >= 1

\* C13: when handle_error chose to retry, the operation returns the error
\* handle_error was called with, whether the reconnect succeeded or the
\* retries were exhausted.
C13_OriginalError ==
    (/\ Handled
     /\ m_config.auto_reconnect
     /\ m_result.handled.io
     /\ \/ m_result.handled.kind \in {"ConnectionReset", "BrokenPipe"}
              /\ m_config.retry_on_connection_reset
        \/ m_result.handled.kind \in {"TimedOut", "WouldBlock"}
              /\ m_config.retry_on_timeout)
        => m_result.err = m_result.handled

(***************************************************************************)
(* SOME/IP-TP: segmentation and reassembly                                 *)
(***************************************************************************)

\* The payload of the largest message segmented.
MaxPayload == 50
\* max_segment_payload runs over 16, 32, ..., 16 * MaxSegUnits.
MaxSegUnits == 2
\* How many segments are fed from outside.
MaxFeeds == 4
\* The clock of the reassembler stops here.
MaxTpTime == 1

\* The largest max_segment_payload set: two offset units and a byte.
MaxSegmentPayload == 33

\* MessageType (types.rs)
Request == 0
RequestNoReturn == 1
Notification == 2
Response == 128
Error == 129
TpRequest == 32
TpRequestNoReturn == 33
TpNotification == 34
TpResponse == 160
TpError == 161

BaseTypes == {Request, RequestNoReturn, Notification, Response, Error}

\* The bit that marks a segmented message type.
TpFlag == 32

TP_HEADER_SIZE == 4

\* Offsets count units of 16 bytes.
OffsetUnit == 16

None == [some |-> FALSE]
Some(v) == [some |-> TRUE, v |-> v]
unwrap_or(opt, default) == IF opt.some THEN opt.v ELSE default

\* MessageType::is_tp
is_tp(t) == t \in {TpRequest, TpRequestNoReturn, TpNotification, TpResponse, TpError}

\* MessageType::to_tp: the TP variant of a base type (the type with the
\* segmented bit set); a type that is a TP variant already has none.
to_tp(t) == IF is_tp(t) THEN None ELSE Some(t + TpFlag)

\* MessageType::to_base: the type with the segmented bit cleared.
to_base(t) == IF is_tp(t) THEN t - TpFlag ELSE t

Min(a, b) == IF a <= b THEN a ELSE b

\* The bytes of a payload tell their position: byte i of a payload that
\* starts at `start` is (start + i) mod 256.
Bytes(start, len) == [i \in 1..len |-> (start + i - 1) % 256]

from_byte_offset_bytes(byte_offset, more) == [offset |-> byte_offset, more |-> more]

\* TpHeader::from_byte_offset
from_byte_offset(byte_offset, more) == [offset |-> byte_offset \div OffsetUnit, more |-> more]

\* TpHeader::byte_offset
byte_offset(tp_header) == tp_header.offset * OffsetUnit

\* SomeIpMessage::new: the header's length is the payload's plus 8.
SomeIpMessage_new(header, payload) ==
    [header |-> [header EXCEPT !.length = Len(payload) + 8], payload |-> payload]

RECURSIVE segment_loop(_, _, _, _)
\* The while loop of segment_message.
segment_loop(message, max_segment_payload, offset, segments) ==
    IF offset < Len(message.payload)
    THEN LET remaining == Len(message.payload) - offset
             segment_size == Min(remaining, max_segment_payload)
             is_last == offset + segment_size >= Len(message.payload)
             tp_header == from_byte_offset(offset, ~is_last)
             header == [message.header EXCEPT
                           !.message_type = unwrap_or(to_tp(message.header.message_type),
                                                      TpRequest),
                           !.length = 8 + TP_HEADER_SIZE + segment_size]
             segment_payload == SubSeq(message.payload, offset + 1, offset + segment_size)
         IN  segment_loop(message, max_segment_payload, offset + segment_size,
                          Append(segments, [header |-> header, tp_header |-> tp_header,
                                            payload |-> segment_payload]))
    ELSE segments

segment_message_strict(message, max_segment_payload) ==
    IF Len(message.payload) < max_segment_payload
    THEN <<>>
    ELSE segment_loop(message, max_segment_payload, 0, <<>>)

\* segment_message
segment_message(message, max_segment_payload) ==
    IF Len(message.payload) <= max_segment_payload
    THEN <<>>
    ELSE segment_loop(message, max_segment_payload, 0, <<>>)

\* A map with no key.
EmptyMap == [k \in {} |-> 0]

ReassemblyKey_without_session(header) ==
    [service_id |-> header.service_id, method_id |-> header.method_id,
     client_id |-> header.client_id, session_id |-> 0]

\* ReassemblyKey::from_header
ReassemblyKey_from_header(header) ==
    [service_id |-> header.service_id, method_id |-> header.method_id,
     client_id |-> header.client_id, session_id |-> header.session_id]

\* ReassemblyContext::new; segments maps an offset to a payload.
ReassemblyContext_new(header, t) ==
    [base_header |-> header, segments |-> EmptyMap, total_length |-> None, created_at |-> t]

\* BTreeMap::insert
Insert(map, key, value) ==
    [k \in DOMAIN map \cup {key} |-> IF k = key THEN value ELSE map[k]]

\* HashMap::remove
RemoveKey(map, key) == [k \in DOMAIN map \ {key} |-> map[k]]

\* ReassemblyContext::add_segment
add_segment(context, segment) ==
    LET offset == segment.tp_header.offset
        stored == [context EXCEPT !.segments = Insert(@, offset, segment.payload)]
    IN  IF ~segment.tp_header.more
        THEN [stored EXCEPT !.total_length =
                                Some(byte_offset(segment.tp_header) + Len(segment.payload))]
        ELSE stored

RECURSIVE Sorted(_)
\* The keys of a BTreeMap in the order its iterator visits them.
Sorted(keys) ==
    IF keys = {} THEN <<>>
    ELSE LET least == CHOOSE k \in keys : \A j \in keys : k <= j
         IN  <<least>> \o Sorted(keys \ {least})

RECURSIVE is_complete_loop(_, _, _, _)
\* The for loop of is_complete over the offsets left to visit: FALSE at a
\* gap, else the bytes accumulated.
is_complete_loop(context, offsets, expected_offset, accumulated_bytes) ==
    IF offsets = <<>>
    THEN [gap |-> FALSE, accumulated_bytes |-> accumulated_bytes]
    ELSE IF Head(offsets) # expected_offset
    THEN [gap |-> TRUE, accumulated_bytes |-> accumulated_bytes]
    ELSE LET accumulated == accumulated_bytes + Len(context.segments[Head(offsets)])
         IN  is_complete_loop(context, Tail(offsets), accumulated \div OffsetUnit,
                              accumulated)

is_complete_on_last(context) == context.total_length.some

\* ReassemblyContext::is_complete
is_complete(context) ==
    IF ~context.total_length.some
    THEN FALSE
    ELSE LET walk == is_complete_loop(context, Sorted(DOMAIN context.segments), 0, 0)
         IN  ~walk.gap /\ walk.accumulated_bytes >= context.total_length.v

RECURSIVE Concat(_, _)
\* The payloads of the segments at the offsets, one after the other.
Concat(segments, offsets) ==
    IF offsets = <<>> THEN <<>>
    ELSE segments[Head(offsets)] \o Concat(segments, Tail(offsets))

\* ReassemblyContext::assemble (total_length is known where feed calls it)
assemble(context) ==
    LET payload == Concat(context.segments, Sorted(DOMAIN context.segments))
        header == [context.base_header EXCEPT
                      !.message_type = to_base(@), !.length = 8 + Len(payload)]
    IN  SomeIpMessage_new(header, payload)

\* ReassemblyContext::is_timed_out
is_timed_out_inclusive(context, timeout, t) == t - context.created_at >= timeout

\* ReassemblyContext::is_timed_out; created_at.elapsed() is t - created_at
is_timed_out(context, timeout, t) == t - context.created_at > timeout

\* TpReassembler::feed: the contexts left, the value returned, and the context
\* of the segment's key as it was when is_complete looked at it.
feed(ctxs, segment, t) ==
    LET key == ReassemblyKey_from_header(segment.header)
        entry == IF key \in DOMAIN ctxs THEN ctxs[key]
                 ELSE ReassemblyContext_new(segment.header, t)
        context == add_segment(entry, segment)
    IN  IF is_complete(context)
        THEN [contexts |-> RemoveKey(ctxs, key), result |-> Some(assemble(context)),
              key |-> key, context |-> context]
        ELSE [contexts |-> Insert(ctxs, key, context), result |-> None,
              key |-> key, context |-> context]

\* TpReassembler::cleanup
tp_cleanup(ctxs, timeout, t) ==
    [k \in {j \in DOMAIN ctxs : ~is_timed_out(ctxs[j], timeout, t)} |-> ctxs[k]]

\* The header of a message of the given key and type.
Header(key, message_type) ==
    [service_id |-> key.service_id, method_id |-> key.method_id,
     client_id |-> key.client_id, session_id |-> key.session_id,
     message_type |-> message_type, length |-> 8]

\* The keys of the messages in reassembly.
Keys == [service_id : {4660}, method_id : {1}, client_id : {1}, session_id : {1, 2}]

TheKey == [service_id |-> 4660, method_id |-> 1, client_id |-> 1, session_id |-> 1]

\* The messages segmented: every base type, every payload length.
Messages ==
    {SomeIpMessage_new(Header(TheKey, t), Bytes(0, len)) :
        t \in BaseTypes, len \in 0..MaxPayload}

\* The values of max_segment_payload: the multiples of 16 from 16 on.
SegmentSizes == {OffsetUnit * n : n \in 1..MaxSegUnits}

\* The values set_max_segment_payload is called with: any size from 1 on,
\* a multiple of 16 or not.
AnySegmentSizes == 1..MaxSegmentPayload

\* The payload lengths of the segments fed from outside: one whole unit, and
\* one that ends inside a unit.
SegmentLens == {16, 24}

\* The TP offsets of the segments fed from outside.
SegmentOffsets == {0, 1, 2}

\* The segments fed from outside: any key, offset, more flag and length.
Segments ==
    {[header |-> [Header(k, TpRequest) EXCEPT !.length = 8 + TP_HEADER_SIZE + len],
      tp_header |-> [offset |-> o, more |-> m],
      payload |-> Bytes(o * OffsetUnit, len)] :
        k \in Keys, o \in SegmentOffsets, m \in BOOLEAN, len \in SegmentLens}

\* The reassembler takes the outcome of a feed.
Fed(segment) ==
    LET out == feed(contexts, segment, tp_now)
    IN  /\ contexts' = out.contexts
        /\ tp_last' = [op |-> "feed", key |-> out.key, context |-> out.context,
                       result |-> out.result]
        /\ tp_feeds' = tp_feeds + 1

\* feed with the next segment of the segmented message, in any order
FeedSegment(segment) ==
    /\ segment \in tp_pending
    /\ tp_pending' = tp_pending \ {segment}
    /\ tp_fed' = Append(tp_fed, segment.tp_header.offset)
    /\ Fed(segment)
    /\ UNCHANGED <<tp_message, tp_other, tp_max_segment_payload, tp_timeout, tp_now>>
    /\ TpFrame

\* feed with a segment from outside
FeedAny(segment) ==
    /\ tp_feeds < MaxFeeds
    /\ Fed(segment)
    /\ UNCHANGED <<tp_message, tp_other, tp_max_segment_payload, tp_pending, tp_fed, tp_timeout,
                   tp_now>>
    /\ TpFrame

\* TpReassembler::cleanup; removed is the number it returns
TpCleanup ==
    /\ contexts' = tp_cleanup(contexts, tp_timeout, tp_now)
    /\ tp_last' = [op |-> "cleanup",
                   removed |-> Cardinality(DOMAIN contexts) - Cardinality(DOMAIN contexts')]
    /\ UNCHANGED <<tp_message, tp_other, tp_max_segment_payload, tp_pending, tp_fed, tp_feeds,
                   tp_timeout, tp_now>>
    /\ TpFrame

\* TpUdpClient::set_max_segment_payload, TpUdpServer::set_max_segment_payload
SetMaxSegmentPayload(size) ==
    /\ tp_max_segment_payload' = size
    /\ tp_last' = [op |-> "set_max_segment_payload"]
    /\ UNCHANGED <<tp_message, tp_other, tp_pending, tp_fed, tp_feeds, contexts, tp_timeout,
                   tp_now>>
    /\ TpFrame

\* send_message up to its call of segment_message
SegmentMessage ==
    /\ tp_last' = [op |-> "segment_message",
                   segments |-> segment_message(tp_message, tp_max_segment_payload)]
    /\ UNCHANGED <<tp_message, tp_other, tp_max_segment_payload, tp_pending, tp_fed, tp_feeds,
                   contexts, tp_timeout, tp_now>>
    /\ TpFrame

\* TpReassembler::clear
TpClear ==
    /\ DOMAIN contexts # {}
    /\ contexts' = EmptyMap
    /\ tp_last' = [op |-> "clear"]
    /\ UNCHANGED <<tp_message, tp_other, tp_max_segment_payload, tp_pending, tp_fed, tp_feeds,
                   tp_timeout, tp_now>>
    /\ TpFrame

\* Time passes.
TpTick ==
    /\ tp_now < MaxTpTime
    /\ tp_now' = tp_now + 1
    /\ UNCHANGED <<tp_message, tp_other, tp_max_segment_payload, tp_pending, tp_fed, tp_feeds,
                   contexts, tp_timeout, tp_last>>
    /\ TpFrame

\* The segments of segment_message(message, max_segment_payload), as a set.
SegmentSet(message, max_segment_payload) ==
    {segment_message(message, max_segment_payload)[i] :
        i \in 1..Len(segment_message(message, max_segment_payload))}

\* The keys that differ from TheKey in one component.
OtherKeys ==
    {[TheKey EXCEPT !.service_id = 4661], [TheKey EXCEPT !.method_id = 2],
     [TheKey EXCEPT !.client_id = 2], [TheKey EXCEPT !.session_id = 2]}

\* The payload lengths of the interleaved messages: one byte over a segment,
\* two whole segments, two segments and a half.
InterleavedLens(max_segment_payload) ==
    {max_segment_payload + 1, 2 * max_segment_payload,
     2 * max_segment_payload + max_segment_payload \div 2}

RoundTripNext == \E segment \in tp_pending : FeedSegment(segment)

TpNext ==
    \/ \E segment \in Segments : FeedAny(segment)
    \/ TpClear

TpTimeoutNext ==
    \/ \E segment \in Segments : FeedAny(segment)
    \/ TpCleanup
    \/ TpTick

SegmentNext ==
    \/ \E size \in AnySegmentSizes : SetMaxSegmentPayload(size)
    \/ SegmentMessage

\* The segments fed between cleanups: both keys, a first and a second segment,
\* closing the message or not.
CleanupSegments ==
    {segment \in Segments : segment.tp_header.offset <= 1 /\ Len(segment.payload) = OffsetUnit}

TpCleanupNext ==
    \/ \E segment \in CleanupSegments : FeedAny(segment)
    \/ TpCleanup
    \/ TpTick

\* C4: the segments of segment_message(M, S), S a multiple of 16 smaller than
\* the payload, fed to a fresh reassembler in any order: every feed but the
\* last returns None, and the last returns M's payload under M's ids and M's
\* (base) message type, leaving no context behind.
C4_RoundTrip ==
    (Len(tp_message.payload) > tp_max_segment_payload /\ tp_last.op = "feed") =>
        IF tp_pending # {}
        THEN tp_last.result = None
        ELSE /\ tp_last.result.some
             /\ tp_last.result.v.payload = tp_message.payload
             /\ ReassemblyKey_from_header(tp_last.result.v.header)
                    = ReassemblyKey_from_header(tp_message.header)
             /\ tp_last.result.v.header.message_type = tp_message.header.message_type
             /\ ~is_tp(tp_last.result.v.header.message_type)
             /\ tp_last.result.v = tp_message
             /\ DOMAIN contexts = {}

\* Three or more segments have been fed out of order, the last one first, and
\* the message has come back.
C4_OutOfOrder ==
    /\ tp_pending = {}
    /\ Len(tp_fed) >= 3
    /\ tp_fed[1] > tp_fed[2]
    /\ tp_fed[Len(tp_fed)] = 0
    /\ tp_last.op = "feed"
    /\ tp_last.result.some

RECURSIVE StoredBytes(_, _)
\* The bytes of the segments stored at the given offsets.
StoredBytes(segments, offsets) ==
    IF offsets = {} THEN 0
    ELSE LET o == CHOOSE x \in offsets : TRUE
         IN  Len(segments[o]) + StoredBytes(segments, offsets \ {o})

\* The stored segments, in offset order, start at offset 0 and each next
\* offset is the bytes before it over 16.
Contiguous(segments) ==
    \A o \in DOMAIN segments :
        o = StoredBytes(segments, {p \in DOMAIN segments : p < o}) \div OffsetUnit

\* C5: feed returns a message only when a segment with more = false has been
\* stored for the key and the stored segments are contiguous from offset 0;
\* otherwise it returns None and the context stays, with the segment in it.
C5_NoGap ==
    tp_last.op = "feed" =>
        LET complete == /\ tp_last.context.total_length.some
                        /\ Contiguous(tp_last.context.segments)
        IN  /\ tp_last.result.some => complete
            /\ ~complete => tp_last.result = None
            /\ tp_last.result = None =>
                  /\ tp_last.key \in DOMAIN contexts
                  /\ contexts[tp_last.key] = tp_last.context

\* The last segment is stored with another one, but a segment is missing
\* before them: feed has returned None.
C5_GapHeld ==
    /\ tp_last.op = "feed"
    /\ tp_last.context.total_length.some
    /\ Cardinality(DOMAIN tp_last.context.segments) >= 2
    /\ ~Contiguous(tp_last.context.segments)
    /\ tp_last.result = None

\* C14: two segmented messages of different keys, their segments fed to one
\* reassembler in any interleaving: a feed returns None while a segment of the
\* fed key is still to come and returns exactly that key's message when the
\* key's last segment is fed, and it leaves the context of the other key as
\* it was.
C14_KeysIndependent ==
    /\ [](tp_last.op = "feed" =>
            LET own == IF tp_last.key = ReassemblyKey_from_header(tp_message.header)
                       THEN tp_message ELSE tp_other
                left == {s \in tp_pending :
                            ReassemblyKey_from_header(s.header) = tp_last.key}
            IN  IF left # {} THEN tp_last.result = None
                ELSE tp_last.result = Some(own))
    /\ [][tp_last'.op = "feed" =>
            \A k \in DOMAIN contexts \ {tp_last'.key} :
                k \in DOMAIN contexts' /\ contexts'[k] = contexts[k]]_vars

\* One message has come back while segments of the other are stored and
\* others of it are still to come.
C14_Interleaved ==
    /\ tp_other # tp_message
    /\ tp_last.op = "feed"
    /\ tp_last.result.some
    /\ DOMAIN contexts # {}
    /\ tp_pending # {}

\* C15: cleanup removes exactly the contexts whose age, counted from the feed
\* of their first segment, exceeds the timeout, returns how many it removed
\* and leaves the younger ones as they were; none created at t0 is left after
\* a cleanup at a time later than t0 + timeout.
C15_CleanupByAge ==
    /\ [][(tp_last'.op = "cleanup" /\ tp_now' = tp_now) =>
            /\ DOMAIN contexts' =
                  {k \in DOMAIN contexts : tp_now - contexts[k].created_at <= tp_timeout}
            /\ \A k \in DOMAIN contexts' :
                  /\ contexts'[k] = contexts[k]
                  /\ ~(tp_now > contexts'[k].created_at + tp_timeout)
            /\ tp_last'.removed
                  = Cardinality(DOMAIN contexts) - Cardinality(DOMAIN contexts')]_vars
    /\ [][(tp_last'.op = "feed" /\ tp_feeds' # tp_feeds /\ tp_last'.key \in DOMAIN contexts') =>
            contexts'[tp_last'.key].created_at =
                IF tp_last'.key \in DOMAIN contexts
                THEN contexts[tp_last'.key].created_at ELSE tp_now]_vars

\* cleanup has removed a timed-out context and left a younger one.
C15_OldRemovedYoungKept ==
    /\ tp_last.op = "cleanup"
    /\ tp_last.removed >= 1
    /\ DOMAIN contexts # {}

\* C30: a reassembly context does not outlive its timeout: a feed that
\* completes a message never builds on a context, stored by earlier feeds,
\* whose age at the time of the feed exceeds the timeout, whether or not
\* cleanup was called in between.
C30_ContextDiesAtTimeout ==
    [][(/\ tp_last'.op = "feed" /\ tp_feeds' # tp_feeds
        /\ tp_last'.result.some
        /\ tp_last'.key \in DOMAIN contexts)
          => ~is_timed_out(contexts[tp_last'.key], tp_timeout, tp_now)]_vars

\* C31: whenever feed returns a message, whatever segments were fed, the
\* payload of the message is as long as total_length (the byte offset of the
\* segment without more plus its payload length) and header.length is
\* 8 + total_length.
C31_AssembledLength ==
    (tp_last.op = "feed" /\ tp_last.result.some) =>
        /\ Len(tp_last.result.v.payload) = tp_last.context.total_length.v
        /\ tp_last.result.v.header.length = 8 + tp_last.context.total_length.v

\* ---- segment_message, one turn of its loop at a time

\* The longest list of segments kept while the loop runs; the loop goes on
\* past it.
MaxLoopSegments == 24

\* The messages segmented turn by turn: no payload, 1, 2 and 20 bytes.
LoopMessages == {SomeIpMessage_new(Header(TheKey, Request), Bytes(0, len)) : len \in {0, 1, 2, 20}}

\* The values set_max_segment_payload is called with: 0, 1, a multiple of
\* 16 and one more.
LoopSizes == {0, 1, OffsetUnit, OffsetUnit + 1}

\* One turn of the while loop of segment_message: the segment pushed and the
\* offset left.
segment_turn(message, max_segment_payload, offset) ==
    LET remaining == Len(message.payload) - offset
        segment_size == Min(remaining, max_segment_payload)
        is_last == offset + segment_size >= Len(message.payload)
        tp_header == from_byte_offset(offset, ~is_last)
        header == [message.header EXCEPT
                      !.message_type = unwrap_or(to_tp(message.header.message_type),
                                                 TpRequest),
                      !.length = 8 + TP_HEADER_SIZE + segment_size]
        segment_payload == SubSeq(message.payload, offset + 1, offset + segment_size)
    IN  [segment |-> [header |-> header, tp_header |-> tp_header,
                      payload |-> segment_payload],
         offset |-> offset + segment_size]

\* set_max_segment_payload, between two calls of segment_message
LoopSetMaxSegmentPayload(size) ==
    /\ tp_last.op # "segmenting"
    /\ size # tp_max_segment_payload
    /\ SetMaxSegmentPayload(size)

\* segment_message up to its loop: it returns at once for a payload of at
\* most max_segment_payload bytes.
SegmentCall ==
    /\ tp_last.op # "segmenting"
    /\ tp_last' = IF Len(tp_message.payload) <= tp_max_segment_payload
                  THEN [op |-> "segment_message", segments |-> <<>>]
                  ELSE [op |-> "segmenting", offset |-> 0, segments |-> <<>>]
    /\ UNCHANGED <<tp_message, tp_other, tp_max_segment_payload, tp_pending, tp_fed, tp_feeds,
                   contexts, tp_timeout, tp_now>>
    /\ TpFrame

\* One test of the loop condition of segment_message: a turn of the loop,
\* or the return of the segments.
SegmentTurn ==
    /\ tp_last.op = "segmenting"
    /\ tp_last' =
          IF tp_last.offset < Len(tp_message.payload)
          THEN LET turn == segment_turn(tp_message, tp_max_segment_payload, tp_last.offset)
               IN  [op |-> "segmenting", offset |-> turn.offset,
                    segments |-> IF Len(tp_last.segments) < MaxLoopSegments
                                 THEN Append(tp_last.segments, turn.segment)
                                 ELSE tp_last.segments]
          ELSE [op |-> "segment_message", segments |-> tp_last.segments]
    /\ UNCHANGED <<tp_message, tp_other, tp_max_segment_payload, tp_pending, tp_fed, tp_feeds,
                   contexts, tp_timeout, tp_now>>
    /\ TpFrame

SegmentLoopNext ==
    \/ \E size \in LoopSizes : LoopSetMaxSegmentPayload(size)
    \/ SegmentCall
    \/ SegmentTurn

\* The loop taken turn by turn returns what segment_message returns.
LoopAgrees ==
    (tp_last.op = "segment_message" /\ tp_max_segment_payload >= 1) =>
        tp_last.segments = segment_message(tp_message, tp_max_segment_payload)

\* C38: segment_message terminates and returns a finite list of segments
\* for every message and every max_segment_payload that
\* set_max_segment_payload accepts, 0 with a non-empty payload included.
C38_SegmentMessageReturns ==
    (tp_last.op = "segmenting") ~> (tp_last.op = "segment_message")

\* The part of C38 on a max_segment_payload of 1 or more.
ReturnsFrom1 ==
    (tp_last.op = "segmenting" /\ tp_max_segment_payload >= 1)
        ~> (tp_last.op = "segment_message")

\* C16: in every non-empty list segment_message returns, for any message and
\* any max_segment_payload, each segment but the last has a payload whose
\* length is a positive multiple of 16 and has more set, and the last segment
\* has more clear.
C16_NonFinalMultipleOf16 ==
    (tp_last.op = "segment_message" /\ tp_last.segments # <<>>) =>
        LET segments == tp_last.segments
        IN  /\ \A i \in 1..(Len(segments) - 1) :
                  /\ Len(segments[i].payload) > 0
                  /\ Len(segments[i].payload) % 16 = 0
                  /\ segments[i].tp_header.more
            /\ ~segments[Len(segments)].tp_header.more

\* The TP variant of a base message type (the MessageType enum).
TpVariant(t) ==
    CASE t = Request -> TpRequest
      [] t = RequestNoReturn -> TpRequestNoReturn
      [] t = Notification -> TpNotification
      [] t = Response -> TpResponse
      [] t = Error -> TpError

\* C17: segment_message(M, S) with |P| > S returns ceil(|P| / S) segments;
\* segment i carries P[i*S .. min((i+1)*S, |P|)), has the TP offset
\* (i*S) / 16, the Length 8 + 4 + its payload length and the TP variant of
\* M's message type, the rest of M's header as it is; with |P| <= S it
\* returns the empty list.
C17_SegmentsOfMessage ==
    tp_last.op = "segment_message" =>
        LET P == tp_message.payload
            S == tp_max_segment_payload
            segments == tp_last.segments
        IN  IF Len(P) > S
            THEN /\ Len(segments) = (Len(P) + S - 1) \div S
                 /\ \A i \in 0..(Len(segments) - 1) :
                       LET segment == segments[i + 1]
                       IN  /\ segment.payload = SubSeq(P, i * S + 1, Min((i + 1) * S, Len(P)))
                           /\ segment.tp_header.offset = (i * S) \div 16
                           /\ segment.header.length = 8 + 4 + Len(segment.payload)
                           /\ segment.header.message_type
                                 = TpVariant(tp_message.header.message_type)
                           /\ [segment.header EXCEPT !.length = 0, !.message_type = 0]
                                 = [tp_message.header EXCEPT !.length = 0, !.message_type = 0]
            ELSE segments = <<>>

\* A message was cut into three segments, the last one shorter, by a size
\* that is no multiple of 16.
C17_ThreeSegments ==
    /\ tp_last.op = "segment_message"
    /\ Len(tp_last.segments) = 3
    /\ tp_max_segment_payload % 16 # 0
    /\ Len(tp_last.segments[3].payload) < tp_max_segment_payload

\* C6: the number of active contexts stays under a ceiling, here one smaller
\* than the number of keys fed.
C6_ContextCeiling == Cardinality(DOMAIN contexts) <= Cardinality(Keys) - 1

(***************************************************************************)
(* SOME/IP-SD: messages, server and client                                 *)
(***************************************************************************)

\* The entries of a datagram received.
MaxEntries == 2
\* The clock of service discovery stops here.
MaxSdTime == 2

\* InstanceId::ANY
ANY == 65535

TheService == 4660
Instances == {1, 2}
TheEventgroup == 1
\* The addresses datagrams come from.
SdAddrs == {"10.0.0.1:30490", "10.0.0.2:30490"}
\* The endpoint the instance is served at.
EndpointOf(instance_id) == [kind |-> "IPv4Endpoint", ip |-> <<127, 0, 0, 1>>, protocol |-> "TCP", port |-> 30500 + instance_id]
ClientEndpoint == [kind |-> "IPv4Endpoint", ip |-> <<10, 0, 0, 9>>, protocol |-> "UDP", port |-> 40000]
\* The event endpoint of the subscriber at the address.
ClientEndpointOf(addr) ==
    [ClientEndpoint EXCEPT !.port = IF addr = "10.0.0.1:30490" THEN 40000 ELSE 40001]
\* A TTL that lasts one tick of the clock.
ShortTtl == 1

\* SdMessage::new
SdMessage_new ==
    [flags |-> [reboot |-> FALSE, unicast |-> FALSE, explicit_initial_data |-> FALSE],
     entries |-> <<>>, options |-> <<>>]

\* ServiceEntry and EventgroupEntry, in one shape: a service entry has
\* counter and eventgroup_id 0, an eventgroup entry minor_version 0.
Entry(kind, entry_type, service_id, instance_id, major_version, minor_version, ttl, counter, eventgroup_id) ==
    [kind |-> kind, entry_type |-> entry_type, index_first_option |-> 0,
     index_second_option |-> 0, num_options_1 |-> 0, num_options_2 |-> 0, service_id |-> service_id, instance_id |-> instance_id,
     major_version |-> major_version, minor_version |-> minor_version, ttl |-> ttl,
     counter |-> counter, eventgroup_id |-> eventgroup_id]

\* A message of one entry that refers to the options given.
Single(entry, options) ==
    [SdMessage_new EXCEPT !.entries = <<[entry EXCEPT !.num_options_1 = Len(options)]>>,
                          !.options = options]

\* SdMessage::find_service
SdMessage_find_service(service_id, instance_id, major_version, minor_version) ==
    Single(Entry("Service", "FindService", service_id, instance_id, major_version,
                 minor_version, 16777215, 0, 0), <<>>)

\* SdMessage::offer_service
SdMessage_offer_service(service_id, instance_id, major_version, minor_version, ttl, endpoint) ==
    Single(Entry("Service", "OfferService", service_id, instance_id, major_version,
                 minor_version, ttl, 0, 0), <<endpoint>>)

\* SdMessage::stop_offer_service
SdMessage_stop_offer_service(service_id, instance_id, major_version, minor_version) ==
    Single(Entry("Service", "OfferService", service_id, instance_id, major_version,
                 minor_version, 0, 0, 0), <<>>)

\* SdMessage::subscribe_eventgroup
SdMessage_subscribe_eventgroup(service_id, instance_id, major_version, eventgroup_id, ttl, endpoint) ==
    Single(Entry("Eventgroup", "SubscribeEventgroup", service_id, instance_id,
                 major_version, 0, ttl, 0, eventgroup_id), <<endpoint>>)

\* SdMessage::stop_subscribe_eventgroup
SdMessage_stop_subscribe_eventgroup(service_id, instance_id, major_version, eventgroup_id) ==
    Single(Entry("Eventgroup", "SubscribeEventgroup", service_id, instance_id,
                 major_version, 0, 0, 0, eventgroup_id), <<>>)

\* SdMessage::subscribe_eventgroup_ack; endpoint is an Option
SdMessage_subscribe_eventgroup_ack(service_id, instance_id, major_version, eventgroup_id, ttl, counter, endpoint) ==
    Single(Entry("Eventgroup", "SubscribeEventgroupAck", service_id, instance_id,
                 major_version, 0, ttl, counter, eventgroup_id),
           IF endpoint.some THEN <<endpoint.v>> ELSE <<>>)

\* SdMessage::subscribe_eventgroup_nack
SdMessage_subscribe_eventgroup_nack(service_id, instance_id, major_version, eventgroup_id, counter) ==
    Single(Entry("Eventgroup", "SubscribeEventgroupAck", service_id, instance_id,
                 major_version, 0, 0, counter, eventgroup_id), <<>>)

\* One run of get_options_for_entry: the options at index..index + num - 1
\* that the array holds (options.get(i) is None past its end).
option_run(options, index, num) ==
    LET held == {i \in index .. (index + num - 1) : i + 1 \in DOMAIN options}
    IN  [n \in 1..Cardinality(held) |-> options[index + n]]

\* SdMessage::get_options_for_entry
get_options_for_entry(msg, entry) ==
    option_run(msg.options, entry.index_first_option, entry.num_options_1)
        \o option_run(msg.options, entry.index_second_option, entry.num_options_2)

\* Endpoint::from_option is Some: the endpoint keeps the option's address,
\* port and protocol, and is written as the option.
is_endpoint_option(option) == option.kind \in {"IPv4Endpoint", "IPv6Endpoint"}

\* SdMessage::get_endpoints_for_entry
get_endpoints_for_entry(msg, entry) ==
    SelectSeq(get_options_for_entry(msg, entry), is_endpoint_option)

\* Two messages in one datagram: the entries of the second refer to its
\* options where they now are.
Join(a, b) ==
    [flags |-> a.flags,
     entries |-> a.entries \o
                 [i \in DOMAIN b.entries |->
                    [b.entries[i] EXCEPT !.index_first_option = @ + Len(a.options)]],
     options |-> a.options \o b.options]

RECURSIVE Joined(_, _)
\* The messages made of up to n of the given one-entry messages.
Joined(msgs, n) ==
    IF n = 0 THEN {SdMessage_new}
    ELSE LET shorter == Joined(msgs, n - 1)
         IN  shorter \cup {Join(a, b) : a \in shorter, b \in msgs}

\* What recv_from hands to process_message: a datagram that parses as an SD
\* message, or one that does not.
Datagrams(msgs) ==
    {[parsed |-> TRUE, msg |-> m] : m \in Joined(msgs, MaxEntries)}
        \cup {[parsed |-> FALSE, msg |-> SdMessage_new]}

\* The entries a server is sent; the finds are those of find_service_version
\* for any major version and minor version 0.
ServerParts ==
    {SdMessage_find_service(TheService, i, 255, 0) : i \in {1, ANY}}
    \cup {SdMessage_subscribe_eventgroup(TheService, 1, 1, TheEventgroup, ShortTtl,
                                         ClientEndpoint),
          SdMessage_stop_subscribe_eventgroup(TheService, 1, 1, TheEventgroup),
          Single(Entry("Eventgroup", "SubscribeEventgroup", TheService, 1, 1, 0,
                       ShortTtl, 0, TheEventgroup), <<>>),
          SdMessage_offer_service(TheService, 1, 1, 0, ShortTtl, EndpointOf(1))}

\* The entries a client is sent.
ClientParts ==
    {SdMessage_offer_service(TheService, i, 1, 0, ShortTtl, EndpointOf(i)) : i \in Instances}
    \cup {SdMessage_stop_offer_service(TheService, i, 1, 0) : i \in Instances}
    \cup {SdMessage_find_service(TheService, ANY, 255, 0),
          SdMessage_subscribe_eventgroup_ack(TheService, 1, 1, TheEventgroup, ShortTtl, 0,
                                             None),
          SdMessage_subscribe_eventgroup_nack(TheService, 1, 1, TheEventgroup, 0)}

\* ---- SdServer

\* The services a server offers.
OfferedServices ==
    {[service_id |-> TheService, instance_id |-> i, major_version |-> 1,
      minor_version |-> 0, endpoint |-> EndpointOf(i), ttl |-> ShortTtl] : i \in Instances}

OfferOf(offered) ==
    SdMessage_offer_service(offered.service_id, offered.instance_id,
                            offered.major_version, offered.minor_version, offered.ttl,
                            offered.endpoint)

find_any_instance(entry) ==
    {key \in DOMAIN offered_services :
        /\ key[1] = entry.service_id
        /\ (key[2] = entry.instance_id \/ entry.instance_id = ANY)}

\* The lookup of a FindService entry in offered_services: the keys found.
find_offered(entry) ==
    {key \in DOMAIN offered_services : key = <<entry.service_id, entry.instance_id>>}

RECURSIVE server_process_entries(_, _, _, _)
\* SdServer::process_message from entry i on: the event returned, the
\* datagrams sent, the subscriptions left, and whether it returned an error.
server_process_entries(msg, src_addr, i, send_ok) ==
    IF i > Len(msg.entries)
    THEN [event |-> None, sent |-> <<>>, subscriptions |-> subscriptions, err |-> FALSE]
    ELSE LET entry == msg.entries[i]
             found == find_offered(entry)
             endpoints == get_endpoints_for_entry(msg, entry)
             sub_key == <<entry.service_id, entry.instance_id, entry.eventgroup_id, src_addr>>
         IN  IF entry.kind = "Service" /\ entry.entry_type = "FindService"
             THEN IF found # {} /\ ~send_ok
                  THEN [event |-> None, sent |-> <<>>, subscriptions |-> subscriptions,
                        err |-> TRUE]
                  ELSE [event |-> Some([kind |-> "FindService",
                                        service_id |-> entry.service_id,
                                        instance_id |-> entry.instance_id,
                                        from |-> src_addr]),
                        sent |-> IF found = {} THEN <<>>
                                 ELSE <<[to |-> src_addr,
                                         msg |-> OfferOf(offered_services[CHOOSE k \in found : TRUE])]>>,
                        subscriptions |-> subscriptions, err |-> FALSE]
             ELSE IF entry.kind = "Eventgroup" /\ entry.entry_type = "SubscribeEventgroup"
                     /\ entry.ttl = 0
             THEN [event |-> Some([kind |-> "Unsubscribe", service_id |-> entry.service_id,
                                   instance_id |-> entry.instance_id, from |-> src_addr]),
                   sent |-> <<>>, subscriptions |-> RemoveKey(subscriptions, sub_key),
                   err |-> FALSE]
             ELSE IF entry.kind = "Eventgroup" /\ entry.entry_type = "SubscribeEventgroup"
                     /\ endpoints # <<>>
             THEN [event |-> Some([kind |-> "Subscribe", service_id |-> entry.service_id,
                                   instance_id |-> entry.instance_id, from |-> src_addr]),
                   sent |-> <<>>, subscriptions |-> subscriptions, err |-> FALSE]
             ELSE server_process_entries(msg, src_addr, i + 1, send_ok)

\* SdServer::process_message
server_process_message(datagram, src_addr, send_ok) ==
    IF ~datagram.parsed
    THEN [event |-> None, sent |-> <<>>, subscriptions |-> subscriptions, err |-> FALSE]
    ELSE server_process_entries(datagram.msg, src_addr, 1, send_ok)

\* SdServer::offer_service; send_ok is the outcome of the multicast
OfferService(service, send_ok) ==
    /\ offered_services' =
          Insert(offered_services, <<service.service_id, service.instance_id>>, service)
    /\ sds_result' = [op |-> "offer_service", err |-> ~send_ok,
                      sent |-> IF send_ok
                               THEN <<[to |-> "multicast", msg |-> OfferOf(service)]>>
                               ELSE <<>>]
    /\ UNCHANGED <<subscriptions, sd_now>>
    /\ SdServerFrame

\* SdServer::stop_offer_service
StopOfferService(service_id, instance_id, send_ok) ==
    LET key == <<service_id, instance_id>>
        offered == key \in DOMAIN offered_services
    IN  /\ offered_services' = RemoveKey(offered_services, key)
        /\ sds_result' =
              [op |-> "stop_offer_service", err |-> offered /\ ~send_ok,
               sent |-> IF offered /\ send_ok
                        THEN <<[to |-> "multicast",
                                msg |-> SdMessage_stop_offer_service(
                                            service_id, instance_id,
                                            offered_services[key].major_version,
                                            offered_services[key].minor_version)]>>
                        ELSE <<>>]
        /\ UNCHANGED <<subscriptions, sd_now>>
        /\ SdServerFrame

\* SdServer::accept_subscription (no multicast endpoint)
AcceptSubscription(instance_id, client_addr, ttl, send_ok) ==
    LET key == <<TheService, instance_id, TheEventgroup, client_addr>>
        major_version == IF <<TheService, instance_id>> \in DOMAIN offered_services
                         THEN offered_services[<<TheService, instance_id>>].major_version
                         ELSE 255
    IN  /\ subscriptions' =
              Insert(subscriptions, key,
                     [client_addr |-> client_addr,
                      client_endpoint |-> ClientEndpointOf(client_addr),
                      counter |-> 0, expires_at |-> sd_now + ttl])
        /\ sds_result' =
              [op |-> "accept_subscription", err |-> ~send_ok,
               sent |-> IF send_ok
                        THEN <<[to |-> client_addr,
                                msg |-> SdMessage_subscribe_eventgroup_ack(
                                            TheService, instance_id, major_version,
                                            TheEventgroup, ttl, 0, None)]>>
                        ELSE <<>>]
        /\ UNCHANGED <<offered_services, sd_now>>
        /\ SdServerFrame

\* SdServer::cleanup_expired
ServerCleanupExpired ==
    LET expired == {key \in DOMAIN subscriptions : sd_now >= subscriptions[key].expires_at}
    IN  /\ subscriptions' = [key \in DOMAIN subscriptions \ expired |-> subscriptions[key]]
        /\ sds_result' = [op |-> "cleanup_expired", err |-> FALSE, sent |-> <<>>,
                          expired |-> expired]
        /\ UNCHANGED <<offered_services, sd_now>>
        /\ SdServerFrame

\* SdServer::poll with a datagram waiting on the socket
ServerPoll(datagram, src_addr, send_ok) ==
    LET out == server_process_message(datagram, src_addr, send_ok)
    IN  /\ subscriptions' = out.subscriptions
        /\ sds_result' = [op |-> "poll", err |-> out.err, sent |-> out.sent,
                          event |-> out.event, from |-> src_addr]
        /\ UNCHANGED <<offered_services, sd_now>>
        /\ SdServerFrame

\* Time passes.
SdServerTick ==
    /\ sd_now < MaxSdTime
    /\ sd_now' = sd_now + 1
    /\ UNCHANGED <<offered_services, subscriptions, sds_result>>
    /\ SdServerFrame

SdServerNext ==
    \/ \E service \in OfferedServices, send_ok \in BOOLEAN : OfferService(service, send_ok)
    \/ \E i \in Instances, send_ok \in BOOLEAN : StopOfferService(TheService, i, send_ok)
    \/ \E a \in SdAddrs, send_ok \in BOOLEAN : AcceptSubscription(1, a, ShortTtl, send_ok)
    \/ ServerCleanupExpired
    \/ \E d \in Datagrams(ServerParts), a \in SdAddrs, send_ok \in BOOLEAN :
            ServerPoll(d, a, send_ok)
    \/ SdServerTick

\* C39: a failed operation leaves the state of the SD server as it was: an
\* accept_subscription whose SubscribeAck cannot be sent leaves the
\* subscription table unchanged, and an offer_service whose initial Offer
\* cannot be sent leaves the offered services unchanged.
C39_FailedLeavesState ==
    [][(sd_now' = sd_now /\ sds_result'.err) =>
            /\ sds_result'.op = "accept_subscription" => subscriptions' = subscriptions
            /\ sds_result'.op = "offer_service" => offered_services' = offered_services]_vars

\* C7: a poll that returns the FindService event of a find that matches an
\* offered service (the same service, and the same instance or the find asks
\* for any instance) has sent to the datagram's source the offer of a matching
\* service, endpoint option included.
C7_FindAnswered ==
    (/\ sds_result.op = "poll"
     /\ ~sds_result.err
     /\ sds_result.event.some
     /\ sds_result.event.v.kind = "FindService"
     /\ find_any_instance(sds_result.event.v) # {})
        => \E i \in DOMAIN sds_result.sent, key \in find_any_instance(sds_result.event.v) :
              /\ sds_result.sent[i].to = sds_result.from
              /\ sds_result.sent[i].msg = OfferOf(offered_services[key])

\* ---- SdClient

RECURSIVE client_process_entries(_, _, _)
\* SdClient::process_message from entry i on: the event returned and the
\* services left.
client_process_entries(msg, src_addr, i) ==
    IF i > Len(msg.entries)
    THEN [event |-> None, services |-> services]
    ELSE LET entry == msg.entries[i]
             key == <<entry.service_id, entry.instance_id>>
             info == [service_id |-> entry.service_id, instance_id |-> entry.instance_id,
                      major_version |-> entry.major_version,
                      minor_version |-> entry.minor_version,
                      endpoints |-> get_endpoints_for_entry(msg, entry),
                      expires_at |-> sd_now + entry.ttl, source_addr |-> src_addr]
         IN  IF entry.kind = "Service" /\ entry.entry_type = "OfferService"
             THEN IF entry.ttl = 0
                  THEN [event |-> Some([kind |-> "ServiceUnavailable", key |-> key]),
                        services |-> RemoveKey(services, key)]
                  ELSE [event |-> Some([kind |-> "ServiceAvailable", key |-> key]),
                        services |-> Insert(services, key, info)]
             ELSE IF entry.kind = "Eventgroup" /\ entry.entry_type = "SubscribeEventgroupAck"
             THEN [event |-> Some([kind |-> IF entry.ttl = 0 THEN "SubscriptionNack"
                                            ELSE "SubscriptionAck",
                                   key |-> key]),
                   services |-> services]
             ELSE client_process_entries(msg, src_addr, i + 1)

\* SdClient::process_message
client_process_message(datagram, src_addr) ==
    IF ~datagram.parsed
    THEN [event |-> None, services |-> services]
    ELSE client_process_entries(datagram.msg, src_addr, 1)

\* SdClient::poll with a datagram waiting on the socket
ClientPoll(datagram, src_addr) ==
    LET out == client_process_message(datagram, src_addr)
    IN  /\ services' = out.services
        /\ sdc_result' = [op |-> "poll", event |-> out.event, datagram |-> datagram,
                          from |-> src_addr]
        /\ UNCHANGED sd_now
        /\ UNCHANGED sdc_wait
        /\ SdClientFrame

\* SdClient::cleanup_expired
ClientCleanupExpired ==
    LET expired == {key \in DOMAIN services : sd_now >= services[key].expires_at}
    IN  /\ services' = [key \in DOMAIN services \ expired |-> services[key]]
        /\ sdc_result' = [op |-> "cleanup_expired", expired |-> expired]
        /\ UNCHANGED sd_now
        /\ UNCHANGED sdc_wait
        /\ SdClientFrame

\* Time passes.
SdClientTick ==
    /\ sd_now < MaxSdTime
    /\ sd_now' = sd_now + 1
    /\ UNCHANGED <<services, sdc_result>>
    /\ UNCHANGED sdc_wait
    /\ SdClientFrame

SdClientNext ==
    \/ \E d \in Datagrams(ClientParts), a \in SdAddrs : ClientPoll(d, a)
    \/ ClientCleanupExpired
    \/ SdClientTick

\* C8: after poll has processed a datagram whose entries are all OfferService
\* entries, every (service, instance) whose last entry has ttl > 0 is in the
\* cache with that entry's data, and every one whose last entry has ttl = 0
\* is not in the cache.
C8_EveryEntryHandled ==
    (/\ sdc_result.op = "poll"
     /\ sdc_result.datagram.parsed
     /\ \A i \in DOMAIN sdc_result.datagram.msg.entries :
            sdc_result.datagram.msg.entries[i].entry_type = "OfferService")
        => \A i \in DOMAIN sdc_result.datagram.msg.entries :
              LET entries == sdc_result.datagram.msg.entries
                  key == <<entries[i].service_id, entries[i].instance_id>>
                  last == \A j \in DOMAIN entries :
                             (j > i) => <<entries[j].service_id, entries[j].instance_id>> # key
              IN  last =>
                    IF entries[i].ttl > 0
                    THEN /\ key \in DOMAIN services
                         /\ services[key].endpoints
                               = get_endpoints_for_entry(sdc_result.datagram.msg, entries[i])
                         /\ services[key].source_addr = sdc_result.from
                    ELSE key \notin DOMAIN services

\* ---- the cache of the SD client

\* ServiceInfo::is_expired
ServiceInfo_is_expired(info, t) == t >= info.expires_at

\* SdClient::get_service
get_service(cache, service_id, instance_id) ==
    IF <<service_id, instance_id>> \in DOMAIN cache
    THEN Some(cache[<<service_id, instance_id>>]) ELSE None

\* SdClient::services: what the iterator yields
services_values(cache) == {cache[key] : key \in DOMAIN cache}

\* SdClient::cleanup_expired: the keys returned and the cache left
cleanup_expired(cache, t) ==
    LET expired == {key \in DOMAIN cache : ServiceInfo_is_expired(cache[key], t)}
    IN  [expired |-> expired, services |-> [key \in DOMAIN cache \ expired |-> cache[key]]]

\* SdClient::get_service
GetService(instance_id) ==
    /\ sdc_result' = [op |-> "get_service", at |-> sd_now,
                      result |-> get_service(services, TheService, instance_id)]
    /\ UNCHANGED <<services, sd_now>>
    /\ UNCHANGED sdc_wait
    /\ SdClientFrame

\* SdClient::services
ListServices ==
    /\ sdc_result' = [op |-> "services", at |-> sd_now, result |-> services_values(services)]
    /\ UNCHANGED <<services, sd_now>>
    /\ UNCHANGED sdc_wait
    /\ SdClientFrame

\* SdClient::cleanup_expired
CacheCleanupExpired ==
    LET out == cleanup_expired(services, sd_now)
    IN  /\ services' = out.services
        /\ sdc_result' = [op |-> "cleanup_expired", expired |-> out.expired]
        /\ UNCHANGED sd_now
        /\ UNCHANGED sdc_wait
        /\ SdClientFrame

\* The entries the client's cache is fed: offers of both instances with a
\* short and a longer TTL, and a stop offer.
CacheParts ==
    {SdMessage_offer_service(TheService, i, 1, 0, ttl, EndpointOf(i)) :
        i \in Instances, ttl \in {ShortTtl, ShortTtl + 1}}
    \cup {SdMessage_stop_offer_service(TheService, 1, 1, 0)}

SdCacheNext ==
    \/ \E msg \in CacheParts, a \in SdAddrs : ClientPoll([parsed |-> TRUE, msg |-> msg], a)
    \/ \E i \in Instances : GetService(i)
    \/ ListServices
    \/ CacheCleanupExpired
    \/ SdClientTick

\* poll stores an offer with expires_at = arrival + TTL, and cleanup_expired
\* removes exactly the entries with now >= expires_at and returns their keys.
CacheKept ==
    /\ [][(sdc_result'.op = "poll" /\ sd_now' = sd_now /\ sdc_result'.event.some
            /\ sdc_result'.event.v.kind = "ServiceAvailable") =>
            /\ sdc_result'.event.v.key \in DOMAIN services'
            /\ services'[sdc_result'.event.v.key].expires_at
                  = sd_now + sdc_result'.datagram.msg.entries[1].ttl]_vars
    /\ [][(sdc_result'.op = "cleanup_expired" /\ sd_now' = sd_now) =>
            /\ sdc_result'.expired
                  = {key \in DOMAIN services : sd_now >= services[key].expires_at}
            /\ DOMAIN services' = DOMAIN services \ sdc_result'.expired
            /\ \A key \in DOMAIN services' : services'[key] = services[key]]_vars

\* C34: the client holds a service present iff now < expires_at, expires_at
\* being the arrival of the latest offer plus its TTL: get_service and
\* services never return an entry whose expires_at has passed, and
\* cleanup_expired removes exactly the entries with now >= expires_at and
\* returns their keys.
C34_PresentUntilExpiry ==
    /\ [](sdc_result.op = "get_service" =>
            (sdc_result.result.some => sdc_result.at < sdc_result.result.v.expires_at))
    /\ [](sdc_result.op = "services" =>
            \A info \in sdc_result.result : sdc_result.at < info.expires_at)
    /\ CacheKept

\* ---- wait_for_service

\* How many events a wait takes without returning them.
MaxUndelivered == 2

\* No wait in progress; undelivered are the events that polls of a wait
\* produced and that the wait did not return.
Wait_new == [pc |-> "idle", instance_id |-> 0, deadline |-> 0, undelivered |-> <<>>]

\* The entries sent to a waiting client: offers of both instances, a stop
\* offer and a subscribe ack.
WaitParts ==
    {SdMessage_offer_service(TheService, i, 1, 0, ShortTtl + 1, EndpointOf(i)) : i \in Instances}
    \cup {SdMessage_stop_offer_service(TheService, 1, 1, 0),
          SdMessage_subscribe_eventgroup_ack(TheService, 1, 1, TheEventgroup, ShortTtl, 0,
                                             None)}

\* The test of wait_for_service on an event poll returned.
wait_matches(event, service_id, instance_id) ==
    /\ event.kind = "ServiceAvailable"
    /\ event.key[1] = service_id
    /\ (instance_id = ANY \/ event.key[2] = instance_id)

\* SdClient::wait_for_service up to its loop: a service already known and
\* not expired is returned, else the find is sent and the deadline set.
WaitStart(instance_id, timeout, send_ok) ==
    /\ sdc_wait.pc = "idle"
    /\ LET known == get_service(services, TheService, instance_id)
       IN  IF known.some /\ ~ServiceInfo_is_expired(known.v, sd_now)
           THEN /\ sdc_result' = [op |-> "wait_for_service", outcome |-> "ok",
                                  instance_id |-> instance_id, result |-> known,
                                  at |-> sd_now, deadline |-> sd_now + timeout]
                /\ sdc_wait' = [sdc_wait EXCEPT !.instance_id = instance_id]
           ELSE IF ~send_ok
           THEN /\ sdc_result' = [op |-> "wait_for_service", outcome |-> "err",
                                  instance_id |-> instance_id, result |-> None,
                                  at |-> sd_now, deadline |-> sd_now + timeout]
                /\ sdc_wait' = [sdc_wait EXCEPT !.instance_id = instance_id]
           ELSE /\ sdc_result' = [op |-> "wait_for_service", outcome |-> "pending"]
                /\ sdc_wait' = [sdc_wait EXCEPT !.pc = "waiting",
                                                !.instance_id = instance_id,
                                                !.deadline = sd_now + timeout]
    /\ UNCHANGED <<services, sd_now>>
    /\ SdClientFrame

\* One turn of the loop of wait_for_service before the deadline, with a
\* datagram waiting on the socket: poll, and return on the awaited offer.
WaitPoll(datagram, src_addr) ==
    /\ sdc_wait.pc = "waiting"
    /\ sd_now < sdc_wait.deadline
    /\ Len(sdc_wait.undelivered) < MaxUndelivered
    /\ LET out == client_process_message(datagram, src_addr)
       IN  /\ services' = out.services
           /\ IF out.event.some /\ wait_matches(out.event.v, TheService, sdc_wait.instance_id)
              THEN /\ sdc_result' = [op |-> "wait_for_service", outcome |-> "ok",
                                     instance_id |-> sdc_wait.instance_id,
                                     result |-> Some(out.services[out.event.v.key]),
                                     at |-> sd_now, deadline |-> sdc_wait.deadline]
                   /\ sdc_wait' = [sdc_wait EXCEPT !.pc = "idle"]
              ELSE /\ sdc_wait' = [sdc_wait EXCEPT !.undelivered =
                                      IF out.event.some THEN Append(@, out.event.v) ELSE @]
                   /\ UNCHANGED sdc_result
    /\ UNCHANGED sd_now
    /\ SdClientFrame

\* The loop of wait_for_service finds the deadline passed.
WaitDeadline ==
    /\ sdc_wait.pc = "waiting"
    /\ sd_now >= sdc_wait.deadline
    /\ sdc_result' = [op |-> "wait_for_service", outcome |-> "ok",
                      instance_id |-> sdc_wait.instance_id, result |-> None,
                      at |-> sd_now, deadline |-> sdc_wait.deadline]
    /\ sdc_wait' = [sdc_wait EXCEPT !.pc = "idle"]
    /\ UNCHANGED <<services, sd_now>>
    /\ SdClientFrame

\* SdClient::poll outside a wait, with a datagram waiting on the socket
PollAfterWait(datagram, src_addr) ==
    /\ sdc_wait.pc = "idle"
    /\ ClientPoll(datagram, src_addr)

\* SdClient::poll outside a wait, with nothing on the socket (WouldBlock)
PollWouldBlock ==
    /\ sdc_wait.pc = "idle"
    /\ sdc_result' = [op |-> "poll", outcome |-> "would_block", event |-> None]
    /\ UNCHANGED <<services, sd_now, sdc_wait>>
    /\ SdClientFrame

SdWaitNext ==
    \/ \E i \in Instances \cup {ANY}, timeout \in 0..1, send_ok \in BOOLEAN :
            WaitStart(i, timeout, send_ok)
    \/ \E msg \in WaitParts, a \in SdAddrs : WaitPoll([parsed |-> TRUE, msg |-> msg], a)
    \/ WaitDeadline
    \/ \E msg \in WaitParts, a \in SdAddrs : PollAfterWait([parsed |-> TRUE, msg |-> msg], a)
    \/ PollWouldBlock
    \/ SdClientTick

\* wait_for_service returns Some(info) only for an offer of the awaited
\* service and instance, and None only once the deadline has passed.
WaitReturns ==
    (sdc_result.op = "wait_for_service" /\ sdc_result.outcome = "ok") =>
        IF sdc_result.result.some
        THEN /\ sdc_result.result.v.service_id = TheService
             /\ (sdc_result.instance_id = ANY
                   \/ sdc_result.result.v.instance_id = sdc_result.instance_id)
        ELSE sdc_result.at >= sdc_result.deadline

\* C40: wait_for_service loses no SD event: it returns Some(info) only for
\* an offer of the awaited service (any instance for ANY, else the awaited
\* one) and None once the deadline has passed, and every other event that
\* the datagrams received during the wait gave is delivered by a later
\* poll: no poll finds nothing to deliver while such an event is undelivered.
C40_WaitLosesNoEvent ==
    /\ WaitReturns
    /\ (sdc_result.op = "poll" /\ sdc_result.event = None) => sdc_wait.undelivered = <<>>

(***************************************************************************)
(* Message codec                                                           *)
(***************************************************************************)

\* The longest stream written to the reader, in messages.
MaxStream == 2

\* HEADER_SIZE (header.rs), PROTOCOL_VERSION (types.rs)
HEADER_SIZE == 16
PROTOCOL_VERSION == 1

\* MessageType::from_u8: the bytes that are a message type
MessageTypes ==
    {Request, RequestNoReturn, Notification, Response, Error,
     TpRequest, TpRequestNoReturn, TpNotification, TpResponse, TpError}

\* ReturnCode::from_u8: the bytes that are a return code
ReturnCodes == 0..15

\* Result
Ok(v) == [ok |-> TRUE, v |-> v]
Err(kind) == [ok |-> FALSE, err |-> kind]

\* u16::to_be_bytes, u32::to_be_bytes
u16_to_be_bytes(v) == <<v \div 256, v % 256>>
u32_to_be_bytes(v) == <<v \div 16777216, (v \div 65536) % 256, (v \div 256) % 256, v % 256>>

\* u16::from_be_bytes, u32::from_be_bytes
u16_from_be_bytes(b) == b[1] * 256 + b[2]
u32_from_be_bytes(b) == ((b[1] * 256 + b[2]) * 256 + b[3]) * 256 + b[4]

\* SomeIpHeader::to_bytes
SomeIpHeader_to_bytes(header) ==
    u16_to_be_bytes(header.service_id) \o u16_to_be_bytes(header.method_id)
        \o u32_to_be_bytes(header.length)
        \o u16_to_be_bytes(header.client_id) \o u16_to_be_bytes(header.session_id)
        \o <<header.protocol_version, header.interface_version, header.message_type,
             header.return_code>>

\* SomeIpHeader::from_bytes
SomeIpHeader_from_bytes(data) ==
    IF Len(data) < HEADER_SIZE THEN Err("MessageTooShort")
    ELSE IF data[13] # PROTOCOL_VERSION THEN Err("WrongProtocolVersion")
    ELSE IF data[15] \notin MessageTypes THEN Err("UnknownMessageType")
    ELSE IF data[16] \notin ReturnCodes THEN Err("UnknownReturnCode")
    ELSE Ok([service_id |-> u16_from_be_bytes(SubSeq(data, 1, 2)),
             method_id |-> u16_from_be_bytes(SubSeq(data, 3, 4)),
             length |-> u32_from_be_bytes(SubSeq(data, 5, 8)),
             client_id |-> u16_from_be_bytes(SubSeq(data, 9, 10)),
             session_id |-> u16_from_be_bytes(SubSeq(data, 11, 12)),
             protocol_version |-> data[13], interface_version |-> data[14],
             message_type |-> data[15], return_code |-> data[16]])

payload_length_raw(header) == header.length

\* SomeIpHeader::payload_length: length.saturating_sub(8)
payload_length(header) == IF header.length >= 8 THEN header.length - 8 ELSE 0

\* SomeIpMessage::from_bytes
SomeIpMessage_from_bytes(data) ==
    IF Len(data) < HEADER_SIZE THEN Err("MessageTooShort")
    ELSE LET header == SomeIpHeader_from_bytes(data)
         IN  IF ~header.ok THEN header
             ELSE LET expected_total == HEADER_SIZE + payload_length(header.v)
                  IN  IF Len(data) < expected_total THEN Err("LengthMismatch")
                      ELSE Ok([header |-> header.v,
                               payload |-> SubSeq(data, HEADER_SIZE + 1, expected_total)])

\* SomeIpMessage::to_bytes
SomeIpMessage_to_bytes(message) == SomeIpHeader_to_bytes(message.header) \o message.payload

\* write_message: what the writer holds afterwards
write_message(writer, message) ==
    (writer \o SomeIpHeader_to_bytes(message.header)) \o message.payload

\* read_message: what it returns and what the stream holds afterwards;
\* read_exact fails at the end of the stream.
read_message(stream) ==
    IF Len(stream) < HEADER_SIZE THEN [result |-> Err("UnexpectedEof"), stream |-> <<>>]
    ELSE LET header == SomeIpHeader_from_bytes(SubSeq(stream, 1, HEADER_SIZE))
             after_header == SubSeq(stream, HEADER_SIZE + 1, Len(stream))
         IN  IF ~header.ok THEN [result |-> header, stream |-> after_header]
             ELSE LET payload_len == payload_length(header.v)
                  IN  IF Len(after_header) < payload_len
                      THEN [result |-> Err("UnexpectedEof"), stream |-> <<>>]
                      ELSE [result |-> Ok(SomeIpMessage_new(header.v,
                                              SubSeq(after_header, 1, payload_len))),
                            stream |-> SubSeq(after_header, payload_len + 1, Len(after_header))]

\* MessageReader::new
MessageReader_new == [buffer |-> <<>>, position |-> 0]

\* MessageReader::feed
MessageReader_feed(r, data) == [r EXCEPT !.buffer = @ \o data]

compact_keep_position(r) ==
    IF r.position > 0
    THEN [r EXCEPT !.buffer = SubSeq(r.buffer, r.position + 1, Len(r.buffer))]
    ELSE r

\* MessageReader::compact
compact(r) ==
    IF r.position > 0
    THEN [buffer |-> SubSeq(r.buffer, r.position + 1, Len(r.buffer)), position |-> 0]
    ELSE r

try_parse_skip_header(r) ==
    LET available == Len(r.buffer) - r.position
    IN  IF available < HEADER_SIZE THEN [reader |-> r, result |-> Ok(None)]
        ELSE
        LET header == SomeIpHeader_from_bytes(
                          SubSeq(r.buffer, r.position + 1, r.position + HEADER_SIZE))
        IN  IF ~header.ok
            THEN [reader |-> [r EXCEPT !.position = @ + HEADER_SIZE], result |-> header]
            ELSE
            LET total_len == HEADER_SIZE + payload_length(header.v)
            IN  IF available < total_len THEN [reader |-> r, result |-> Ok(None)]
                ELSE
                LET message == SomeIpMessage_from_bytes(
                                   SubSeq(r.buffer, r.position + 1, r.position + total_len))
                    advanced == [r EXCEPT !.position = @ + total_len]
                IN  IF ~message.ok THEN [reader |-> r, result |-> message]
                    ELSE [reader |-> IF advanced.position > Len(advanced.buffer) \div 2
                                     THEN compact(advanced) ELSE advanced,
                          result |-> Ok(Some(message.v))]

\* MessageReader::try_parse: the reader afterwards and what it returns
try_parse(r) ==
    LET available == Len(r.buffer) - r.position
    IN  IF available < HEADER_SIZE THEN [reader |-> r, result |-> Ok(None)]
        ELSE
        LET header == SomeIpHeader_from_bytes(
                          SubSeq(r.buffer, r.position + 1, r.position + HEADER_SIZE))
        IN  IF ~header.ok THEN [reader |-> r, result |-> header]
            ELSE
            LET total_len == HEADER_SIZE + payload_length(header.v)
            IN  IF available < total_len THEN [reader |-> r, result |-> Ok(None)]
                ELSE
                LET message == SomeIpMessage_from_bytes(
                                   SubSeq(r.buffer, r.position + 1, r.position + total_len))
                    advanced == [r EXCEPT !.position = @ + total_len]
                IN  IF ~message.ok THEN [reader |-> r, result |-> message]
                    ELSE [reader |-> IF advanced.position > Len(advanced.buffer) \div 2
                                     THEN compact(advanced) ELSE advanced,
                          result |-> Ok(Some(message.v))]

RECURSIVE parse_all_loop(_, _)
\* The while loop of parse_all.
parse_all_loop(r, messages) ==
    LET out == try_parse(r)
    IN  IF ~out.result.ok THEN out
        ELSE IF out.result.v.some THEN parse_all_loop(out.reader, Append(messages, out.result.v.v))
        ELSE [reader |-> out.reader, result |-> Ok(messages)]

\* MessageReader::parse_all
parse_all(r) == parse_all_loop(r, <<>>)

\* A header with every field given (the fields of SomeIpHeader are public).
CodecHeader(method_id, session_id, message_type, return_code, length) ==
    [service_id |-> 4660, method_id |-> method_id, length |-> length, client_id |-> 258,
     session_id |-> session_id, protocol_version |-> PROTOCOL_VERSION,
     interface_version |-> 1, message_type |-> message_type, return_code |-> return_code]

\* The payload lengths of the messages encoded.
CodecPayloadLens == {0, 1, 2}

\* The values a header's length holds for a payload of len bytes: the one
\* SomeIpMessage::new gives, and others its public field can be set to.
CodecLengths(len) == {8 + len, 8 + len + 1, 8 + len - 1, 0, 264}

\* The messages encoded: any type, ids with a high and a low byte.
CodecMessages ==
    {[header |-> CodecHeader(m, s, t, c, l), payload |-> Bytes(7, len)] :
        m \in {1, 33024}, s \in {1, 513}, t \in MessageTypes, c \in {0, 15},
        l \in UNION {CodecLengths(n) : n \in CodecPayloadLens}, len \in CodecPayloadLens}

\* The messages of a stream: no payload, one byte, more than a header.
StreamMessages ==
    {SomeIpMessage_new(CodecHeader(1, len + 1, Response, 0, 8), Bytes(len, len)) :
        len \in {0, 1, 20}}

\* The streams: 1..MaxStream messages.
Streams == UNION {[1..n -> StreamMessages] : n \in 1..MaxStream}

RECURSIVE encode_all(_, _)
\* MessageWriter::encode for each message in turn, from an empty buffer.
encode_all(messages, buffer) ==
    IF messages = <<>> THEN buffer
    ELSE encode_all(Tail(messages), write_message(buffer, Head(messages)))

\* MessageReader::feed with the next n bytes of the stream
ReaderFeed(n) ==
    /\ n \in 1..Len(c_wire)
    /\ reader' = MessageReader_feed(reader, SubSeq(c_wire, 1, n))
    /\ c_wire' = SubSeq(c_wire, n + 1, Len(c_wire))
    /\ c_last' = [op |-> "feed"]
    /\ UNCHANGED <<c_messages, c_yielded>>
    /\ CodecFrame

\* MessageReader::try_parse
ReaderTryParse ==
    LET out == try_parse(reader)
    IN  /\ reader' = out.reader
        /\ c_yielded' = IF out.result.ok /\ out.result.v.some
                        THEN Append(c_yielded, out.result.v.v) ELSE c_yielded
        /\ c_last' = [op |-> "try_parse", result |-> out.result]
        /\ UNCHANGED <<c_messages, c_wire>>
        /\ CodecFrame

\* MessageReader::parse_all
ReaderParseAll ==
    LET out == parse_all(reader)
    IN  /\ reader' = out.reader
        /\ c_yielded' = IF out.result.ok THEN c_yielded \o out.result.v ELSE c_yielded
        /\ c_last' = [op |-> "parse_all", result |-> out.result]
        /\ UNCHANGED <<c_messages, c_wire>>
        /\ CodecFrame

\* SomeIpMessage::to_bytes of the message
MessageToBytes ==
    /\ c_wire' = SomeIpMessage_to_bytes(c_messages[1])
    /\ c_last' = [op |-> "to_bytes"]
    /\ UNCHANGED <<c_messages, reader, c_yielded>>
    /\ CodecFrame

\* SomeIpMessage::from_bytes of what to_bytes gave
MessageFromBytes ==
    /\ c_last.op = "to_bytes"
    /\ c_last' = [op |-> "from_bytes", result |-> SomeIpMessage_from_bytes(c_wire)]
    /\ UNCHANGED <<c_messages, c_wire, reader, c_yielded>>
    /\ CodecFrame

\* write_message of the message to an empty stream
WriteMessage ==
    /\ c_wire' = write_message(<<>>, c_messages[1])
    /\ c_last' = [op |-> "write_message"]
    /\ UNCHANGED <<c_messages, reader, c_yielded>>
    /\ CodecFrame

\* read_message from the stream write_message wrote
ReadMessage ==
    /\ c_last.op = "write_message"
    /\ LET out == read_message(c_wire)
       IN  /\ c_wire' = out.stream
           /\ c_last' = [op |-> "read_message", result |-> out.result]
    /\ UNCHANGED <<c_messages, reader, c_yielded>>
    /\ CodecFrame

ReaderNext ==
    \/ \E n \in 1..(MaxStream * (HEADER_SIZE + 20)) : ReaderFeed(n)
    \/ ReaderTryParse
    \/ ReaderParseAll

CodecNext ==
    \/ MessageToBytes
    \/ MessageFromBytes
    \/ WriteMessage
    \/ ReadMessage

\* C18: however the stream of well-formed messages is cut into feeds, and
\* whenever try_parse and parse_all are called in between, the messages
\* yielded so far followed by those parse_all yields once the rest of the
\* stream is fed are the messages one feed of the whole stream followed by
\* parse_all yields.
C18_ChunkingInsensitive ==
    LET whole == parse_all(MessageReader_feed(MessageReader_new, encode_all(c_messages, <<>>)))
        rest == parse_all(MessageReader_feed(reader, c_wire))
    IN  /\ whole.result.ok
        /\ rest.result.ok
        /\ c_yielded \o rest.result.v = whole.result.v
        /\ c_last.op \in {"try_parse", "parse_all"} => c_last.result.ok

\* The first message of two has been yielded, a part of the second one's
\* header is buffered, the rest of the stream is still to be fed, and
\* try_parse has just returned None.
C18_PartialSecond ==
    /\ Len(c_messages) = 2
    /\ Len(c_yielded) = 1
    /\ c_wire # <<>>
    /\ Len(reader.buffer) - reader.position \in 1..(HEADER_SIZE - 1)
    /\ c_last.op = "try_parse"
    /\ c_last.result = Ok(None)

\* A message SomeIpMessage::new or from_bytes can give.
ValidMessage(message) ==
    /\ message.header.length = 8 + Len(message.payload)
    /\ message.header.protocol_version = 1

\* C19: for a valid message m (length 8 + payload length, protocol version
\* 1) from_bytes(to_bytes(m)) is m, and read_message reads m from the
\* stream write_message wrote it to.
C19_MessageRoundTrip ==
    ValidMessage(c_messages[1]) =>
        /\ c_last.op = "from_bytes" => c_last.result = Ok(c_messages[1])
        /\ c_last.op = "read_message" => c_last.result = Ok(c_messages[1]) /\ c_wire = <<>>

\* A valid message with a payload and two-byte ids went through to_bytes
\* and from_bytes.
C19_Decoded ==
    /\ ValidMessage(c_messages[1])
    /\ c_last.op = "from_bytes"
    /\ c_last.result.ok
    /\ Len(c_messages[1].payload) = 2
    /\ c_messages[1].header.method_id = 33024

\* C20: the Length field to_bytes emits is 8 + payload.len(), whatever the
\* length field of the message's header holds.
C20_LengthEmitted ==
    c_last.op = "to_bytes" =>
        u32_from_be_bytes(SubSeq(c_wire, 5, 8)) = 8 + Len(c_messages[1].payload)

\* C35: every message SomeIpMessage::from_bytes returns has
\* header.length = 8 + payload.len(), whatever the buffer, a Length field
\* below 8 or below the number of bytes after the header included.
C35_DecodedLength ==
    (c_last.op = "from_bytes" /\ c_last.result.ok) =>
        c_last.result.v.header.length = 8 + Len(c_last.result.v.payload)

\* The part of C35 on a Length field of 8 or more.
DecodedLengthFrom8 ==
    (c_last.op = "from_bytes" /\ c_last.result.ok /\ c_last.result.v.header.length >= 8) =>
        c_last.result.v.header.length = 8 + Len(c_last.result.v.payload)

\* MessageReader::clear
MessageReader_clear(r) == [buffer |-> <<>>, position |-> 0]

\* MessageReader::clear
ReaderClear ==
    /\ reader.buffer # <<>>
    /\ reader' = MessageReader_clear(reader)
    /\ c_last' = [op |-> "clear"]
    /\ UNCHANGED <<c_messages, c_wire, c_yielded>>
    /\ CodecFrame

\* The frames of a stream that may be broken: a message with no payload and
\* one with a byte, a header whose Length is below 8, and headers with a
\* wrong protocol version, an unknown message type, an unknown return code.
BrokenFrames ==
    LET good == CodecHeader(1, 1, Response, 0, 8)
    IN  {[header |-> good, payload |-> <<>>],
         [header |-> [good EXCEPT !.length = 9], payload |-> <<7>>],
         [header |-> [good EXCEPT !.length = 0], payload |-> <<>>],
         [header |-> [good EXCEPT !.protocol_version = 2], payload |-> <<>>],
         [header |-> [good EXCEPT !.message_type = 3], payload |-> <<>>],
         [header |-> [good EXCEPT !.return_code = 94, !.length = 9], payload |-> <<7>>]}

\* The streams that may be broken: 1..MaxStream frames.
BrokenStreams == UNION {[1..n -> BrokenFrames] : n \in 1..MaxStream}

\* The sizes of the feeds: a byte, around a header, and all that is left.
BrokenFeeds == {1, HEADER_SIZE - 1, HEADER_SIZE, HEADER_SIZE + 1}

ReaderFailNext ==
    \/ \E n \in BrokenFeeds \cup {Len(c_wire)} : ReaderFeed(n)
    \/ ReaderTryParse
    \/ ReaderParseAll
    \/ ReaderClear

\* The bytes of the reader not consumed yet.
Unread(r) == SubSeq(r.buffer, r.position + 1, Len(r.buffer))

\* The outcome of decoding the header at the front of the unread bytes.
FrontHeader(r) == SomeIpHeader_from_bytes(SubSeq(Unread(r), 1, HEADER_SIZE))

\* The unread bytes begin with 16 bytes that fail header decoding.
BadFront(r) == Len(Unread(r)) >= HEADER_SIZE /\ ~FrontHeader(r).ok

\* C32: try_parse returns None and leaves the buffer as it is while fewer
\* than 16 + payload_length bytes are buffered, and otherwise consumes
\* exactly 16 + payload_length bytes; when the next 16 buffered bytes fail
\* header decoding it returns that error and consumes nothing, and so does
\* every later try_parse and parse_all, whatever is fed, until clear.
C32_ReaderConsumption ==
    /\ [][c_last'.op = "try_parse" =>
            IF Len(Unread(reader)) < HEADER_SIZE
            THEN c_last'.result = Ok(None) /\ reader' = reader
            ELSE IF ~FrontHeader(reader).ok
            THEN c_last'.result = FrontHeader(reader) /\ reader' = reader
            ELSE LET total == HEADER_SIZE + payload_length(FrontHeader(reader).v)
                 IN  IF Len(Unread(reader)) < total
                     THEN c_last'.result = Ok(None) /\ reader' = reader
                     ELSE /\ c_last'.result.ok /\ c_last'.result.v.some
                          /\ Unread(reader')
                                = SubSeq(Unread(reader), total + 1, Len(Unread(reader)))]_vars
    /\ [](BadFront(reader) =>
            /\ try_parse(reader) = [reader |-> reader, result |-> FrontHeader(reader)]
            /\ parse_all(reader) = [reader |-> reader, result |-> FrontHeader(reader)])
    /\ [][(BadFront(reader) /\ c_last'.op # "clear") =>
            BadFront(reader') /\ FrontHeader(reader') = FrontHeader(reader)]_vars

\* try_parse has returned the error of a broken header that follows a
\* message already yielded, with bytes fed since the error was first returned.
C32_StuckAfterMessage ==
    /\ c_last.op = "try_parse"
    /\ ~c_last.result.ok
    /\ Len(c_yielded) = 1
    /\ c_wire = <<>>
    /\ Len(Unread(reader)) > HEADER_SIZE

(***************************************************************************)
(* SD wire format                                                          *)
(***************************************************************************)

\* SD_ENTRY_SIZE, SD_OPTION_HEADER_SIZE (sd/types.rs)
SD_ENTRY_SIZE == 16
SD_OPTION_HEADER_SIZE == 4

\* SdFlags::to_u8
SdFlags_to_u8(flags) ==
    (IF flags.reboot THEN 128 ELSE 0) + (IF flags.unicast THEN 64 ELSE 0)
        + (IF flags.explicit_initial_data THEN 32 ELSE 0)

\* SdFlags::from_u8
SdFlags_from_u8(byte) ==
    [reboot |-> (byte \div 128) % 2 = 1, unicast |-> (byte \div 64) % 2 = 1,
     explicit_initial_data |-> (byte \div 32) % 2 = 1]

\* EntryType as u8
EntryType_to_u8(entry_type) ==
    CASE entry_type = "FindService" -> 0
      [] entry_type = "OfferService" -> 1
      [] entry_type = "SubscribeEventgroup" -> 6
      [] entry_type = "SubscribeEventgroupAck" -> 7

\* EntryType::from_u8
EntryType_from_u8(value) ==
    CASE value = 0 -> Some("FindService")
      [] value = 1 -> Some("OfferService")
      [] value = 6 -> Some("SubscribeEventgroup")
      [] value = 7 -> Some("SubscribeEventgroupAck")
      [] OTHER -> None

\* EntryType::is_service_entry
is_service_entry(entry_type) == entry_type \in {"FindService", "OfferService"}

\* TransportProtocol as u8, TransportProtocol::from_u8
TransportProtocol_to_u8(protocol) == IF protocol = "TCP" THEN 6 ELSE 17
TransportProtocol_from_u8(value) ==
    CASE value = 6 -> Some("TCP") [] value = 17 -> Some("UDP") [] OTHER -> None

\* The first eight bytes of ServiceEntry::to_bytes and
\* EventgroupEntry::to_bytes, and the TTL's low three bytes.
entry_head_to_bytes(entry) ==
    <<EntryType_to_u8(entry.entry_type), entry.index_first_option, entry.index_second_option,
      (entry.num_options_1 % 16) * 16 + (entry.num_options_2 % 16)>>
        \o u16_to_be_bytes(entry.service_id) \o u16_to_be_bytes(entry.instance_id)
        \o <<entry.major_version>> \o Tail(u32_to_be_bytes(entry.ttl))

\* ServiceEntry::to_bytes
ServiceEntry_to_bytes(entry) == entry_head_to_bytes(entry) \o u32_to_be_bytes(entry.minor_version)

EventgroupEntry_to_bytes_reserved(entry) ==
    entry_head_to_bytes(entry) \o <<0, entry.counter % 16>> \o u16_to_be_bytes(entry.eventgroup_id)

\* EventgroupEntry::to_bytes
EventgroupEntry_to_bytes(entry) ==
    entry_head_to_bytes(entry) \o <<entry.counter % 16, 0>> \o u16_to_be_bytes(entry.eventgroup_id)

\* SdEntry::to_bytes
SdEntry_to_bytes(entry) ==
    IF entry.kind = "Service" THEN ServiceEntry_to_bytes(entry)
    ELSE EventgroupEntry_to_bytes(entry)

\* ServiceEntry::from_bytes and EventgroupEntry::from_bytes after their
\* checks of the length and the entry type.
entry_fields_from_bytes(kind, entry_type, data) ==
    [kind |-> kind, entry_type |-> entry_type, index_first_option |-> data[2],
     index_second_option |-> data[3], num_options_1 |-> (data[4] \div 16) % 16,
     num_options_2 |-> data[4] % 16,
     service_id |-> u16_from_be_bytes(SubSeq(data, 5, 6)),
     instance_id |-> u16_from_be_bytes(SubSeq(data, 7, 8)),
     major_version |-> data[9],
     ttl |-> u32_from_be_bytes(<<0>> \o SubSeq(data, 10, 12)),
     minor_version |-> IF kind = "Service" THEN u32_from_be_bytes(SubSeq(data, 13, 16)) ELSE 0,
     counter |-> IF kind = "Service" THEN 0 ELSE data[13] % 16,
     eventgroup_id |-> IF kind = "Service" THEN 0 ELSE u16_from_be_bytes(SubSeq(data, 15, 16))]

\* SdEntry::from_bytes
SdEntry_from_bytes(data) ==
    IF data = <<>> THEN Err("MessageTooShort")
    ELSE LET entry_type == EntryType_from_u8(data[1])
         IN  IF ~entry_type.some THEN Err("InvalidHeader")
             ELSE IF Len(data) < SD_ENTRY_SIZE THEN Err("MessageTooShort")
             ELSE Ok(entry_fields_from_bytes(
                         IF is_service_entry(entry_type.v) THEN "Service" ELSE "Eventgroup",
                         entry_type.v, data))

\* OptionType as u8 of the options SdOption has a variant for
OptionType_to_u8(kind) ==
    CASE kind = "Configuration" -> 1
      [] kind = "IPv4Endpoint" -> 4
      [] kind = "IPv6Endpoint" -> 6
      [] kind = "IPv4Multicast" -> 20
      [] kind = "IPv6Multicast" -> 22

\* The match of SdOption::from_bytes on OptionType::from_u8: the variant
\* parsed, Unknown for every other byte.
OptionKind_from_u8(value) ==
    CASE value = 1 -> "Configuration"
      [] value = 4 -> "IPv4Endpoint"
      [] value = 6 -> "IPv6Endpoint"
      [] value = 20 -> "IPv4Multicast"
      [] value = 22 -> "IPv6Multicast"
      [] OTHER -> "Unknown"

\* IPv4EndpointOption::to_bytes, IPv6EndpointOption::to_bytes,
\* ConfigurationOption::to_bytes and the data of an Unknown option
option_data_to_bytes(option) ==
    CASE option.kind \in {"IPv4Endpoint", "IPv4Multicast", "IPv6Endpoint", "IPv6Multicast"} ->
            option.ip \o <<0, TransportProtocol_to_u8(option.protocol)>>
                \o u16_to_be_bytes(option.port) \o <<0>>
      [] option.kind = "Configuration" -> option.config_string
      [] option.kind = "Unknown" -> option.data

\* SdOption::to_bytes
SdOption_to_bytes(option) ==
    LET data == option_data_to_bytes(option)
        option_type == IF option.kind = "Unknown" THEN option.option_type
                       ELSE OptionType_to_u8(option.kind)
    IN  u16_to_be_bytes(Len(data) % 65536) \o <<option_type, 0>> \o data

\* IPv4EndpointOption::from_bytes (addr_len 4, DATA_SIZE 9) and
\* IPv6EndpointOption::from_bytes (addr_len 16, DATA_SIZE 21)
endpoint_option_from_bytes(kind, addr_len, data) ==
    IF Len(data) < addr_len + 5 THEN Err("MessageTooShort")
    ELSE LET protocol == TransportProtocol_from_u8(data[addr_len + 2])
         IN  IF ~protocol.some THEN Err("InvalidHeader")
             ELSE Ok([kind |-> kind, ip |-> SubSeq(data, 1, addr_len), protocol |-> protocol.v,
                      port |-> u16_from_be_bytes(SubSeq(data, addr_len + 3, addr_len + 4))])

\* SdOption::from_bytes: the option and the bytes it took
SdOption_from_bytes(data) ==
    IF Len(data) < SD_OPTION_HEADER_SIZE THEN Err("MessageTooShort")
    ELSE
    LET length == u16_from_be_bytes(SubSeq(data, 1, 2))
        option_type_byte == data[3]
        total_size == SD_OPTION_HEADER_SIZE + length
        option_data == SubSeq(data, SD_OPTION_HEADER_SIZE + 1, total_size)
        kind == OptionKind_from_u8(option_type_byte)
        option == CASE kind \in {"IPv4Endpoint", "IPv4Multicast"} ->
                          endpoint_option_from_bytes(kind, 4, option_data)
                    [] kind \in {"IPv6Endpoint", "IPv6Multicast"} ->
                          endpoint_option_from_bytes(kind, 16, option_data)
                    [] kind = "Configuration" ->
                          IF \A i \in DOMAIN option_data : option_data[i] < 128
                          THEN Ok([kind |-> kind, config_string |-> option_data])
                          ELSE Err("InvalidHeader")
                    [] OTHER -> Ok([kind |-> "Unknown", option_type |-> option_type_byte,
                                    data |-> option_data])
    IN  IF Len(data) < total_size THEN Err("MessageTooShort")
        ELSE IF ~option.ok THEN option
        ELSE Ok([option |-> option.v, size |-> total_size])

RECURSIVE entries_to_bytes(_)
\* The loop over the entries in SdMessage::to_bytes.
entries_to_bytes(entries) ==
    IF entries = <<>> THEN <<>>
    ELSE SdEntry_to_bytes(Head(entries)) \o entries_to_bytes(Tail(entries))

RECURSIVE options_to_bytes(_)
\* The bytes of the options one after the other, in SdMessage::to_bytes.
options_to_bytes(options) ==
    IF options = <<>> THEN <<>>
    ELSE SdOption_to_bytes(Head(options)) \o options_to_bytes(Tail(options))

\* SdMessage::to_bytes
SdMessage_to_bytes(msg) ==
    LET entries_length == Len(msg.entries) * SD_ENTRY_SIZE
        options_bytes == options_to_bytes(msg.options)
    IN  <<SdFlags_to_u8(msg.flags), 0, 0, 0>> \o u32_to_be_bytes(entries_length)
            \o entries_to_bytes(msg.entries)
            \o u32_to_be_bytes(Len(options_bytes)) \o options_bytes

RECURSIVE parse_entries(_, _, _)
\* The while loop over the entries in SdMessage::from_bytes.
parse_entries(entries_data, offset, entries) ==
    IF offset + SD_ENTRY_SIZE <= Len(entries_data)
    THEN LET entry == SdEntry_from_bytes(SubSeq(entries_data, offset + 1, Len(entries_data)))
         IN  IF ~entry.ok THEN entry
             ELSE parse_entries(entries_data, offset + SD_ENTRY_SIZE, Append(entries, entry.v))
    ELSE Ok(entries)

RECURSIVE parse_options(_, _, _, _)
\* The while loop over the options in SdMessage::from_bytes.
parse_options(options_data, options_length, opt_offset, options) ==
    IF opt_offset < options_length
    THEN LET out == SdOption_from_bytes(SubSeq(options_data, opt_offset + 1, Len(options_data)))
         IN  IF ~out.ok THEN out
             ELSE parse_options(options_data, options_length, opt_offset + out.v.size,
                                Append(options, out.v.option))
    ELSE Ok(options)

\* SdMessage::from_bytes
SdMessage_from_bytes(data) ==
    IF Len(data) < 12 THEN Err("MessageTooShort")
    ELSE
    LET flags == SdFlags_from_u8(data[1])
        entries_length == u32_from_be_bytes(SubSeq(data, 5, 8))
    IN  IF Len(data) < 8 + entries_length + 4 THEN Err("MessageTooShort")
        ELSE
        LET entries == parse_entries(SubSeq(data, 9, 8 + entries_length), 0, <<>>)
            options_offset == 8 + entries_length
            options_length == u32_from_be_bytes(SubSeq(data, options_offset + 1,
                                                       options_offset + 4))
            options_data == SubSeq(data, options_offset + 5, Len(data))
            options == parse_options(options_data, options_length, 0, <<>>)
        IN  IF ~entries.ok THEN entries
            ELSE IF Len(options_data) < options_length THEN Err("MessageTooShort")
            ELSE IF ~options.ok THEN options
            ELSE Ok([flags |-> flags, entries |-> entries.v, options |-> options.v])

\* SdMessage::to_someip_message: a Notification of the SD service and method
SdMessage_to_someip_message(msg) ==
    [header |-> [service_id |-> 65535, method_id |-> 33024,
                 length |-> 8 + Len(SdMessage_to_bytes(msg)), client_id |-> 0,
                 session_id |-> 0, protocol_version |-> PROTOCOL_VERSION,
                 interface_version |-> 1, message_type |-> Notification, return_code |-> 0],
     payload |-> SdMessage_to_bytes(msg)]

\* The most options in a message encoded.
MaxOptions == 2

\* The entries encoded: each type, option runs of 0..15 options, TTLs up to
\* 24 bits, counters up to 4 bits, and one entry whose TTL, counter and
\* option count are one over.
WireEntries ==
    {[Entry("Service", "FindService", 4660, ANY, 255, 65538, 16777215, 0, 0)
         EXCEPT !.index_first_option = 3, !.index_second_option = 200,
                !.num_options_1 = 15, !.num_options_2 = 1],
     Entry("Service", "OfferService", 4660, 1, 1, 0, 0, 0, 0),
     [Entry("Eventgroup", "SubscribeEventgroup", 4660, 1, 1, 0, 3, 15, 513)
         EXCEPT !.num_options_2 = 15],
     Entry("Eventgroup", "SubscribeEventgroupAck", 4660, 258, 1, 0, 0, 0, 1),
     [Entry("Eventgroup", "SubscribeEventgroup", 4660, 1, 1, 0, 16777216, 16, 1)
         EXCEPT !.num_options_1 = 16]}

\* The options encoded: endpoints, configuration strings, and options of a
\* type SdOption has no variant for.
WireOptions ==
    {EndpointOf(1),
     [kind |-> "IPv6Multicast", ip |-> [i \in 1..16 |-> 240 + i], protocol |-> "UDP",
      port |-> 30490],
     [kind |-> "Configuration", config_string |-> <<97, 61, 98>>],
     [kind |-> "Unknown", option_type |-> 36, data |-> <<1, 2>>],
     [kind |-> "Unknown", option_type |-> 255, data |-> <<>>]}

\* The SD messages encoded.
WireMessages ==
    {[flags |-> [reboot |-> r, unicast |-> ~r, explicit_initial_data |-> r],
      entries |-> e, options |-> o] :
        r \in BOOLEAN,
        e \in UNION {[1..n -> WireEntries] : n \in 0..MaxEntries},
        o \in UNION {[1..n -> WireOptions] : n \in 0..MaxOptions}}

\* SdMessage::to_bytes of the message
SdToBytes ==
    /\ c_wire' = SdMessage_to_bytes(c_messages[1])
    /\ c_last' = [op |-> "sd_to_bytes"]
    /\ UNCHANGED <<c_messages, reader, c_yielded>>
    /\ CodecFrame

\* SdMessage::from_bytes of what to_bytes gave
SdFromBytes ==
    /\ c_last.op = "sd_to_bytes"
    /\ c_last' = [op |-> "sd_from_bytes", result |-> SdMessage_from_bytes(c_wire)]
    /\ UNCHANGED <<c_messages, c_wire, reader, c_yielded>>
    /\ CodecFrame

SdCodecNext ==
    \/ SdToBytes
    \/ SdFromBytes

\* An SD message whose fields fit their wire width: option counts of 4
\* bits, TTL of 24 bits, counter of 4 bits.
FitsWire(msg) ==
    \A i \in DOMAIN msg.entries :
        /\ msg.entries[i].num_options_1 <= 15
        /\ msg.entries[i].num_options_2 <= 15
        /\ msg.entries[i].ttl < 16777216
        /\ msg.entries[i].counter <= 15

\* C21: for every SD message s whose option counts, TTLs and counters fit
\* their wire width, from_bytes(to_bytes(s)) is s: the flags, the entries in
\* order and the options in order, Unknown options with their type byte and
\* data included.
C21_SdRoundTrip ==
    (c_last.op = "sd_from_bytes" /\ FitsWire(c_messages[1])) =>
        c_last.result = Ok(c_messages[1])

\* A message of two entries, an eventgroup entry with counter 15 among them,
\* and two options, an Unknown one among them, went through to_bytes and
\* from_bytes.
C21_Decoded ==
    /\ c_last.op = "sd_from_bytes"
    /\ c_last.result.ok
    /\ FitsWire(c_messages[1])
    /\ Len(c_messages[1].entries) = 2
    /\ \E i \in 1..2 : c_messages[1].entries[i].counter = 15
    /\ Len(c_messages[1].options) = 2
    /\ \E i \in 1..2 : c_messages[1].options[i].kind = "Unknown"

\* ---- the options an entry refers to

\* The entries resolved: both runs, inside the options and past their end.
ResolveEntries ==
    {[Entry("Service", "OfferService", 4660, 1, 1, 0, 3, 0, 0)
         EXCEPT !.index_first_option = i1, !.num_options_1 = n1,
                !.index_second_option = i2, !.num_options_2 = n2] :
        i1 \in 0..1, n1 \in 0..MaxOptions, i2 \in 0..MaxOptions, n2 \in 0..1}

\* The options referred to: two endpoints and an option that is none.
ResolveOptions ==
    {EndpointOf(1), EndpointOf(2), [kind |-> "Configuration", config_string |-> <<97, 61, 98>>]}

\* The messages whose entry is resolved.
ResolveMessages ==
    {[SdMessage_new EXCEPT !.entries = <<e>>, !.options = o] :
        e \in ResolveEntries, o \in UNION {[1..n -> ResolveOptions] : n \in 0..MaxOptions}}

\* get_endpoints_for_entry of the first entry of the message decoded
GetEndpointsForEntry ==
    /\ c_last.op = "sd_from_bytes"
    /\ c_last.result.ok
    /\ c_last' = [op |-> "get_endpoints_for_entry", msg |-> c_last.result.v,
                  result |-> get_endpoints_for_entry(c_last.result.v,
                                                     c_last.result.v.entries[1])]
    /\ UNCHANGED <<c_messages, c_wire, reader, c_yielded>>
    /\ CodecFrame

SdResolveNext ==
    \/ SdToBytes
    \/ SdFromBytes
    \/ GetEndpointsForEntry

\* A run of the entry reaches past the end of the options.
PastTheEnd(msg, entry) ==
    \/ entry.num_options_1 > 0
          /\ entry.index_first_option + entry.num_options_1 > Len(msg.options)
    \/ entry.num_options_2 > 0
          /\ entry.index_second_option + entry.num_options_2 > Len(msg.options)

\* The options of a run that lies inside the array.
RunOf(msg, index, num) == [n \in 1..num |-> msg.options[index + n]]

\* C33: get_endpoints_for_entry resolves the runs (index1, count1) and
\* (index2, count2) by position in the options array, run 1 first; an entry
\* with a run that reaches past the end of the array resolves to no
\* endpoint at all, and the decode of its message does not fail.
C33_RunsResolved ==
    /\ c_last.op = "sd_from_bytes" => c_last.result.ok
    /\ c_last.op = "get_endpoints_for_entry" =>
          LET msg == c_last.msg
              entry == msg.entries[1]
          IN  IF PastTheEnd(msg, entry)
              THEN c_last.result = <<>>
              ELSE c_last.result
                     = SelectSeq(RunOf(msg, entry.index_first_option, entry.num_options_1)
                                   \o RunOf(msg, entry.index_second_option,
                                            entry.num_options_2),
                                 is_endpoint_option)

\* The part of C33 on runs inside the array, and the decode.
RunsInsideResolved ==
    /\ c_last.op = "sd_from_bytes" => c_last.result.ok
    /\ (c_last.op = "get_endpoints_for_entry"
          /\ ~PastTheEnd(c_last.msg, c_last.msg.entries[1])) =>
          c_last.result
             = SelectSeq(RunOf(c_last.msg, c_last.msg.entries[1].index_first_option,
                               c_last.msg.entries[1].num_options_1)
                           \o RunOf(c_last.msg, c_last.msg.entries[1].index_second_option,
                                    c_last.msg.entries[1].num_options_2),
                         is_endpoint_option)

\* ---- poll on the bytes of a datagram

\* An entry type byte EntryType::from_u8 has no type for.
UnknownEntryType == 2

\* The datagram send_to makes of the message, with the type byte of entry
\* `unknown` (none if 0) overwritten by an unknown type.
DatagramBytes(msg, unknown) ==
    LET data == SomeIpMessage_to_bytes(SdMessage_to_someip_message(msg))
    IN  IF unknown = 0 THEN data
        ELSE [data EXCEPT ![HEADER_SIZE + 8 + SD_ENTRY_SIZE * (unknown - 1) + 1] =
                              UnknownEntryType]

\* The start of process_message: the header is skipped and the rest parsed.
ParseDatagram(data) ==
    LET sd_msg == IF Len(data) < 16 THEN Err("MessageTooShort")
                  ELSE SdMessage_from_bytes(SubSeq(data, 17, Len(data)))
    IN  [parsed |-> sd_msg.ok, msg |-> IF sd_msg.ok THEN sd_msg.v ELSE SdMessage_new]

\* The entries but the one at index `unknown`.
WithoutEntry(entries, unknown) ==
    SubSeq(entries, 1, unknown - 1) \o SubSeq(entries, unknown + 1, Len(entries))

\* SdClient::poll with the bytes of a datagram waiting on the socket
ClientPollWire(msg, unknown, src_addr) ==
    LET datagram == ParseDatagram(DatagramBytes(msg, unknown))
        out == client_process_message(datagram, src_addr)
    IN  /\ unknown \in 0..Len(msg.entries)
        /\ services' = out.services
        /\ sdc_result' = [op |-> "poll_wire", event |-> out.event, datagram |-> datagram,
                          from |-> src_addr, wire_of |-> msg, unknown |-> unknown]
        /\ UNCHANGED sd_now
        /\ UNCHANGED sdc_wait
        /\ SdClientFrame

\* SdServer::poll with the bytes of a datagram waiting on the socket
ServerPollWire(msg, unknown, src_addr, send_ok) ==
    LET datagram == ParseDatagram(DatagramBytes(msg, unknown))
        out == server_process_message(datagram, src_addr, send_ok)
    IN  /\ unknown \in 0..Len(msg.entries)
        /\ subscriptions' = out.subscriptions
        /\ sds_result' = [op |-> "poll_wire", err |-> out.err, sent |-> out.sent,
                          event |-> out.event, from |-> src_addr, datagram |-> datagram,
                          wire_of |-> msg, unknown |-> unknown]
        /\ UNCHANGED <<offered_services, sd_now>>
        /\ SdServerFrame

\* The entries put on the wire to a client and to a server, and who sends them.
WireClientParts ==
    {SdMessage_offer_service(TheService, 1, 1, 0, ShortTtl, EndpointOf(1)),
     SdMessage_subscribe_eventgroup_ack(TheService, 1, 1, TheEventgroup, ShortTtl, 0, None)}
WireServerParts ==
    {SdMessage_find_service(TheService, 1, 255, 0),
     SdMessage_subscribe_eventgroup(TheService, 1, 1, TheEventgroup, ShortTtl, ClientEndpoint)}
WireSource == "10.0.0.1:30490"

SdWireNext ==
    \/ \E msg \in Joined(WireClientParts, MaxEntries), unknown \in 0..MaxEntries :
            ClientPollWire(msg, unknown, WireSource)
    \/ \E msg \in Joined(WireServerParts, MaxEntries), unknown \in 0..MaxEntries :
            ServerPollWire(msg, unknown, WireSource, TRUE)

\* C22: a datagram with an entry of unknown type is not failed as a whole:
\* poll of the client and of the server decodes the other entries of the
\* datagram, and a client that is left with one OfferService entry of
\* ttl > 0 has the service in its cache.
C22_UnknownEntryRejectedAlone ==
    /\ (sdc_result.op = "poll_wire" /\ sdc_result.unknown > 0) =>
          LET rest == WithoutEntry(sdc_result.wire_of.entries, sdc_result.unknown)
          IN  /\ sdc_result.datagram.parsed
              /\ sdc_result.datagram.msg.entries = rest
              /\ (Len(rest) = 1 /\ rest[1].entry_type = "OfferService" /\ rest[1].ttl > 0) =>
                    <<rest[1].service_id, rest[1].instance_id>> \in DOMAIN services
    /\ (sds_result.op = "poll_wire" /\ sds_result.unknown > 0) =>
          /\ sds_result.datagram.parsed
          /\ sds_result.datagram.msg.entries
                = WithoutEntry(sds_result.wire_of.entries, sds_result.unknown)

\* A datagram of known entries is decoded by poll to the message sent.
WireFaithful ==
    /\ (sdc_result.op = "poll_wire" /\ sdc_result.unknown = 0) =>
          sdc_result.datagram = [parsed |-> TRUE, msg |-> sdc_result.wire_of]
    /\ (sds_result.op = "poll_wire" /\ sds_result.unknown = 0) =>
          sds_result.datagram = [parsed |-> TRUE, msg |-> sds_result.wire_of]

\* ---- subscriptions of the SD server

\* SdServer::get_subscribers: the keys that pass the filter, and the
\* endpoints collected from them
subscriber_keys(service_id, instance_id, eventgroup_id) ==
    {key \in DOMAIN subscriptions :
        /\ key[1] = service_id
        /\ key[2] = instance_id
        /\ key[3] = eventgroup_id
        /\ sd_now < subscriptions[key].expires_at}
get_subscribers(service_id, instance_id, eventgroup_id) ==
    {subscriptions[key].client_endpoint :
        key \in subscriber_keys(service_id, instance_id, eventgroup_id)}

\* SdServer::get_subscribers of the eventgroup of instance 1
GetSubscribers ==
    /\ sds_result' = [op |-> "get_subscribers", err |-> FALSE, sent |-> <<>>,
                      subscribers |-> get_subscribers(TheService, 1, TheEventgroup)]
    /\ UNCHANGED <<offered_services, subscriptions, sd_now>>
    /\ SdServerFrame

\* What subscribers send a server: a find, a subscribe with the endpoint
\* option, and a subscribe with ttl 0.
SubscribeParts ==
    {SdMessage_find_service(TheService, 1, 255, 0),
     SdMessage_subscribe_eventgroup(TheService, 1, 1, TheEventgroup, ShortTtl, ClientEndpoint),
     SdMessage_stop_subscribe_eventgroup(TheService, 1, 1, TheEventgroup)}

\* The TTLs subscriptions are accepted with.
AcceptTtls == {ShortTtl, ShortTtl + 1}

SdSubscribeNext ==
    \/ \E a \in SdAddrs, ttl \in AcceptTtls, send_ok \in BOOLEAN :
            AcceptSubscription(1, a, ttl, send_ok)
    \/ ServerCleanupExpired
    \/ \E msg \in Joined(SubscribeParts, MaxEntries), a \in SdAddrs :
            ServerPollWire(msg, 0, a, TRUE)
    \/ GetSubscribers
    \/ SdServerTick

\* The entry is a SubscribeEventgroup with ttl > 0 / with ttl = 0.
IsSubscribe(entry) ==
    entry.kind = "Eventgroup" /\ entry.entry_type = "SubscribeEventgroup" /\ entry.ttl > 0
IsUnsubscribe(entry) ==
    entry.kind = "Eventgroup" /\ entry.entry_type = "SubscribeEventgroup" /\ entry.ttl = 0

\* The poll returned the Unsubscribe event.
PolledUnsubscribe(result) ==
    result.op = "poll_wire" /\ result.event.some /\ result.event.v.kind = "Unsubscribe"

\* No datagram poll sent carries a SubscribeEventgroupAck entry.
NoAckSent(result) ==
    \A i \in DOMAIN result.sent :
        \A j \in DOMAIN result.sent[i].msg.entries :
            result.sent[i].msg.entries[j].entry_type # "SubscribeEventgroupAck"

\* poll sends no SubscribeAck, and leaves the table as it is unless it
\* returns Unsubscribe.
PollLeavesTable ==
    /\ [](sds_result.op = "poll_wire" => NoAckSent(sds_result))
    /\ [][(sds_result'.op = "poll_wire" /\ ~PolledUnsubscribe(sds_result'))
            => subscriptions' = subscriptions]_vars

\* The table is changed by accept_subscription, by a poll that returns
\* Unsubscribe and by cleanup_expired only.
TableChangedBy ==
    [][subscriptions' # subscriptions
          => \/ sds_result'.op \in {"accept_subscription", "cleanup_expired"}
             \/ PolledUnsubscribe(sds_result')]_vars

\* C23: poll never acknowledges or records a subscription by itself: for
\* every SubscribeEventgroup entry with ttl > 0 of the datagram received it
\* returns the Subscribe event of that entry, it sends no SubscribeAck and
\* leaves the subscription table unchanged; the table is changed only by
\* accept_subscription, by a received Subscribe with ttl = 0 and by
\* cleanup_expired.
C23_PollNeverAcks ==
    /\ [](sds_result.op = "poll_wire" =>
            \A i \in DOMAIN sds_result.wire_of.entries :
                IsSubscribe(sds_result.wire_of.entries[i]) =>
                    /\ sds_result.event.some
                    /\ sds_result.event.v.kind = "Subscribe"
                    /\ sds_result.event.v.service_id = sds_result.wire_of.entries[i].service_id
                    /\ sds_result.event.v.instance_id = sds_result.wire_of.entries[i].instance_id
                    /\ sds_result.event.v.from = sds_result.from)
    /\ PollLeavesTable
    /\ TableChangedBy

\* The key of the subscription of the subscriber at the address, and
\* whether get_subscribers yields its endpoint.
SubscriptionKeyOf(addr) == <<TheService, 1, TheEventgroup, addr>>
IsSubscriber(addr) == ClientEndpointOf(addr) \in get_subscribers(TheService, 1, TheEventgroup)

\* The datagram poll received from the address has a Subscribe with ttl = 0.
UnsubscribeArrived(result, addr) ==
    /\ result.op = "poll_wire"
    /\ result.from = addr
    /\ \E i \in DOMAIN result.wire_of.entries : IsUnsubscribe(result.wire_of.entries[i])

\* The life of a subscription but for what an Unsubscribe does: accepted at
\* t with ttl it expires at t + ttl; get_subscribers has its endpoint exactly
\* while now < t + ttl; it stays as accepted unless it is accepted again, an
\* Unsubscribe of its subscriber arrives or cleanup_expired finds
\* now >= expires_at; cleanup_expired removes and returns exactly the keys
\* with now >= expires_at.
SubscriptionLifecycle ==
    /\ [][\A a \in SdAddrs, ttl \in AcceptTtls, send_ok \in BOOLEAN :
            AcceptSubscription(1, a, ttl, send_ok) =>
                subscriptions'[SubscriptionKeyOf(a)].expires_at = sd_now + ttl]_vars
    /\ [](\A a \in SdAddrs :
            IsSubscriber(a) <=> /\ SubscriptionKeyOf(a) \in DOMAIN subscriptions
                                /\ sd_now < subscriptions[SubscriptionKeyOf(a)].expires_at)
    /\ [][\A a \in SdAddrs :
            SubscriptionKeyOf(a) \in DOMAIN subscriptions =>
                \/ /\ SubscriptionKeyOf(a) \in DOMAIN subscriptions'
                   /\ \/ subscriptions'[SubscriptionKeyOf(a)] = subscriptions[SubscriptionKeyOf(a)]
                      \/ sds_result'.op = "accept_subscription"
                \/ UnsubscribeArrived(sds_result', a)
                \/ /\ sds_result'.op = "cleanup_expired"
                   /\ sd_now >= subscriptions[SubscriptionKeyOf(a)].expires_at]_vars
    /\ [][(sds_result'.op = "cleanup_expired" /\ sd_now' = sd_now) =>
            LET expired == {key \in DOMAIN subscriptions :
                                sd_now >= subscriptions[key].expires_at}
            IN  /\ sds_result'.expired = expired
                /\ subscriptions' = [key \in DOMAIN subscriptions \ expired |->
                                        subscriptions[key]]]_vars

\* C24: a subscription accepted at t with ttl is among get_subscribers at
\* every time now < t + ttl until a Subscribe with ttl = 0 for its eventgroup
\* arrives from its subscriber; after that Unsubscribe has arrived, or once
\* now >= t + ttl, it is not; cleanup_expired removes exactly the
\* subscriptions with now >= expires_at and returns their keys; the
\* subscriptions of other subscribers are not affected.
C24_SubscriptionLifecycle ==
    /\ SubscriptionLifecycle
    /\ [](\A a \in SdAddrs :
            UnsubscribeArrived(sds_result, a) =>
                /\ SubscriptionKeyOf(a) \notin DOMAIN subscriptions
                /\ ~IsSubscriber(a))

(***************************************************************************)
(* TP segments on the wire                                                 *)
(***************************************************************************)

\* TpHeader::to_bytes: the offset in the upper 28 bits, the more flag in bit 0
TpHeader_to_bytes(tp_header) ==
    u32_to_be_bytes(tp_header.offset * 16 + (IF tp_header.more THEN 1 ELSE 0))

\* TpHeader::from_bytes
TpHeader_from_bytes(data) ==
    IF Len(data) < TP_HEADER_SIZE THEN Err("MessageTooShort")
    ELSE LET value == u32_from_be_bytes(SubSeq(data, 1, 4))
         IN  Ok([offset |-> value \div 16, more |-> value % 2 # 0])

\* TpSegment::to_bytes
TpSegment_to_bytes(segment) ==
    SomeIpHeader_to_bytes(segment.header) \o TpHeader_to_bytes(segment.tp_header)
        \o segment.payload

\* TpSegment::from_bytes
TpSegment_from_bytes(data) ==
    LET min_size == HEADER_SIZE + TP_HEADER_SIZE
    IN  IF Len(data) < min_size THEN Err("MessageTooShort")
        ELSE
        LET header == SomeIpHeader_from_bytes(SubSeq(data, 1, HEADER_SIZE))
            tp_header == TpHeader_from_bytes(SubSeq(data, HEADER_SIZE + 1, min_size))
        IN  IF ~header.ok THEN header
            ELSE IF ~is_tp(header.v.message_type) THEN Err("InvalidHeader")
            ELSE IF ~tp_header.ok THEN tp_header
            ELSE Ok([header |-> header.v, tp_header |-> tp_header.v,
                     payload |-> SubSeq(data, min_size + 1, Len(data))])

\* TpUdpClient::receive on one datagram: the contexts left and what the
\* datagram led to, an error returned, a message returned, or the loop going
\* on to the next datagram.
receive(ctxs, data, t) ==
    LET header == SomeIpHeader_from_bytes(SubSeq(data, 1, HEADER_SIZE))
        segment == TpSegment_from_bytes(data)
        out == feed(ctxs, segment.v, t)
    IN  IF Len(data) >= HEADER_SIZE + TP_HEADER_SIZE /\ ~header.ok
        THEN [contexts |-> ctxs, result |-> header]
        ELSE IF Len(data) >= HEADER_SIZE + TP_HEADER_SIZE /\ is_tp(header.v.message_type)
        THEN IF ~segment.ok THEN [contexts |-> ctxs, result |-> segment]
             ELSE [contexts |-> out.contexts,
                   result |-> IF out.result.some THEN Ok(out.result.v) ELSE Ok("continue")]
        ELSE [contexts |-> ctxs, result |-> SomeIpMessage_from_bytes(data)]

\* The header of a segment or message on the wire.
WireHeader(key, message_type, length) ==
    [service_id |-> key.service_id, method_id |-> key.method_id, length |-> length,
     client_id |-> key.client_id, session_id |-> key.session_id,
     protocol_version |-> PROTOCOL_VERSION, interface_version |-> 1,
     message_type |-> message_type, return_code |-> 0]

\* The datagrams received: segments of either key with 16 payload bytes at
\* offset 0 or 1,
\* whose Length field is that of the datagram, or of a datagram 16 bytes
\* longer or 16 bytes shorter, and a message that is no segment.
WireDatagrams ==
    {TpSegment_to_bytes([header |-> WireHeader(k, TpRequest, 8 + TP_HEADER_SIZE + len),
                         tp_header |-> [offset |-> o, more |-> more],
                         payload |-> Bytes(o * OffsetUnit, OffsetUnit)]) :
        k \in Keys, o \in {0, 1}, more \in BOOLEAN, len \in {0, OffsetUnit, 2 * OffsetUnit}}
    \cup {SomeIpMessage_to_bytes([header |-> WireHeader(TheKey, Request, 8 + 20),
                                  payload |-> Bytes(0, 20)])}

\* TpUdpClient::receive takes one datagram from the socket
TpReceive(data) ==
    LET out == receive(contexts, data, tp_now)
    IN  /\ contexts' = out.contexts
        /\ tp_last' = [op |-> "receive", data |-> data, result |-> out.result]
        /\ UNCHANGED <<tp_message, tp_other, tp_max_segment_payload, tp_pending, tp_fed,
                       tp_feeds, tp_timeout, tp_now>>
        /\ TpFrame

TpWireNext ==
    \/ \E data \in WireDatagrams : TpReceive(data)
    \/ TpClear

\* The datagram is a TP segment whose Length field is not 8 + 4 + the number
\* of bytes after the TP header.
LengthInconsistent(data) ==
    /\ Len(data) >= HEADER_SIZE + TP_HEADER_SIZE
    /\ is_tp(data[15])
    /\ u32_from_be_bytes(SubSeq(data, 5, 8))
          # 8 + TP_HEADER_SIZE + (Len(data) - HEADER_SIZE - TP_HEADER_SIZE)

\* C25: a TP segment datagram whose Length field is inconsistent with its
\* size is rejected with LengthMismatch or MessageTooShort, and its bytes
\* are not stored in a reassembly context nor returned in a message.
C25_InconsistentLengthRejected ==
    /\ []((tp_last.op = "receive" /\ LengthInconsistent(tp_last.data)) =>
            /\ ~tp_last.result.ok
            /\ tp_last.result.err \in {"LengthMismatch", "MessageTooShort"})
    /\ [][(tp_last'.op = "receive" /\ LengthInconsistent(tp_last'.data)
              /\ tp_last' # tp_last) => contexts' = contexts]_vars

(***************************************************************************)
(* Specifications                                                          *)
(***************************************************************************)

InitSession ==
    /\ session_counter = 1 /\ session_calls = 0 /\ session_last = 0
    /\ session_threads = Threads_new
    \* the other subsystems, idle
    /\ pool_kind = "sync"
    /\ pool_config = [max_connections_per_endpoint |-> 1, idle_timeout |-> 1,
                      max_lifetime |-> [some |-> FALSE, d |-> 0]]
    /\ connections = [a \in Addrs |-> <<>>]
    /\ handles = {} /\ pending_returns = {} /\ next_client = 1 /\ now = 0
    /\ pool_result = [op |-> "new"]
    /\ lockstep = [sync |-> Pool_new, async |-> Pool_new, last |-> [op |-> "new", at |-> 0]]
    /\ m_config = [auto_reconnect |-> FALSE, max_retries |-> [some |-> FALSE, n |-> 0],
                   retry_on_timeout |-> FALSE, retry_on_connection_reset |-> FALSE]
    /\ m_state = "Disconnected" /\ m_stream = FALSE /\ m_client_id = 1
    /\ m_session_counter = 1 /\ m_reconnect_attempts = 0 /\ m_pc = "idle"
    /\ m_request = [client_id |-> 0, session_id |-> 0]
    /\ m_reads = 0 /\ m_ops = 0 /\ m_discarded = {}
    /\ m_result = [op |-> "new", outcome |-> "ok", connects |-> 0]
    /\ tp_message = SomeIpMessage_new(Header(TheKey, Request), <<>>)
    /\ tp_other = SomeIpMessage_new(Header(TheKey, Request), <<>>)
    /\ tp_max_segment_payload = OffsetUnit
    /\ tp_pending = {} /\ tp_fed = <<>> /\ tp_feeds = 0 /\ contexts = EmptyMap
    /\ tp_timeout = 0 /\ tp_now = 0 /\ tp_last = [op |-> "new"]
    /\ c_messages = <<>> /\ c_wire = <<>> /\ reader = MessageReader_new
    /\ c_yielded = <<>> /\ c_last = [op |-> "new"]
    /\ offered_services = EmptyMap /\ subscriptions = EmptyMap
    /\ sds_result = [op |-> "new", err |-> FALSE, sent |-> <<>>]
    /\ services = EmptyMap /\ sdc_result = [op |-> "new"] /\ sd_now = 0
    /\ sdc_wait = Wait_new

InitSessionThreads ==
    /\ session_counter \in StartCounters
    /\ session_calls = 0 /\ session_last = 0
    /\ session_threads = Threads_new
    \* the other subsystems, idle
    /\ pool_kind = "sync"
    /\ pool_config = [max_connections_per_endpoint |-> 1, idle_timeout |-> 1,
                      max_lifetime |-> [some |-> FALSE, d |-> 0]]
    /\ connections = [a \in Addrs |-> <<>>]
    /\ handles = {} /\ pending_returns = {} /\ next_client = 1 /\ now = 0
    /\ pool_result = [op |-> "new"]
    /\ lockstep = [sync |-> Pool_new, async |-> Pool_new, last |-> [op |-> "new", at |-> 0]]
    /\ m_config = [auto_reconnect |-> FALSE, max_retries |-> [some |-> FALSE, n |-> 0],
                   retry_on_timeout |-> FALSE, retry_on_connection_reset |-> FALSE]
    /\ m_state = "Disconnected" /\ m_stream = FALSE /\ m_client_id = 1
    /\ m_session_counter = 1 /\ m_reconnect_attempts = 0 /\ m_pc = "idle"
    /\ m_request = [client_id |-> 0, session_id |-> 0]
    /\ m_reads = 0 /\ m_ops = 0 /\ m_discarded = {}
    /\ m_result = [op |-> "new", outcome |-> "ok", connects |-> 0]
    /\ tp_message = SomeIpMessage_new(Header(TheKey, Request), <<>>)
    /\ tp_other = SomeIpMessage_new(Header(TheKey, Request), <<>>)
    /\ tp_max_segment_payload = OffsetUnit
    /\ tp_pending = {} /\ tp_fed = <<>> /\ tp_feeds = 0 /\ contexts = EmptyMap
    /\ tp_timeout = 0 /\ tp_now = 0 /\ tp_last = [op |-> "new"]
    /\ c_messages = <<>> /\ c_wire = <<>> /\ reader = MessageReader_new
    /\ c_yielded = <<>> /\ c_last = [op |-> "new"]
    /\ offered_services = EmptyMap /\ subscriptions = EmptyMap
    /\ sds_result = [op |-> "new", err |-> FALSE, sent |-> <<>>]
    /\ services = EmptyMap /\ sdc_result = [op |-> "new"] /\ sd_now = 0
    /\ sdc_wait = Wait_new

InitPool ==
    /\ pool_kind \in {"sync", "async"}
    /\ pool_config \in PoolConfigs
    /\ connections = [a \in Addrs |-> <<>>]
    /\ handles = {} /\ pending_returns = {} /\ next_client = 1 /\ now = 0
    /\ pool_result = [op |-> "new"]
    \* the other subsystems, idle
    /\ session_counter = 1 /\ session_calls = 0 /\ session_last = 0
    /\ session_threads = Threads_new
    /\ lockstep = [sync |-> Pool_new, async |-> Pool_new, last |-> [op |-> "new", at |-> 0]]
    /\ m_config = [auto_reconnect |-> FALSE, max_retries |-> [some |-> FALSE, n |-> 0],
                   retry_on_timeout |-> FALSE, retry_on_connection_reset |-> FALSE]
    /\ m_state = "Disconnected" /\ m_stream = FALSE /\ m_client_id = 1
    /\ m_session_counter = 1 /\ m_reconnect_attempts = 0 /\ m_pc = "idle"
    /\ m_request = [client_id |-> 0, session_id |-> 0]
    /\ m_reads = 0 /\ m_ops = 0 /\ m_discarded = {}
    /\ m_result = [op |-> "new", outcome |-> "ok", connects |-> 0]
    /\ tp_message = SomeIpMessage_new(Header(TheKey, Request), <<>>)
    /\ tp_other = SomeIpMessage_new(Header(TheKey, Request), <<>>)
    /\ tp_max_segment_payload = OffsetUnit
    /\ tp_pending = {} /\ tp_fed = <<>> /\ tp_feeds = 0 /\ contexts = EmptyMap
    /\ tp_timeout = 0 /\ tp_now = 0 /\ tp_last = [op |-> "new"]
    /\ c_messages = <<>> /\ c_wire = <<>> /\ reader = MessageReader_new
    /\ c_yielded = <<>> /\ c_last = [op |-> "new"]
    /\ offered_services = EmptyMap /\ subscriptions = EmptyMap
    /\ sds_result = [op |-> "new", err |-> FALSE, sent |-> <<>>]
    /\ services = EmptyMap /\ sdc_result = [op |-> "new"] /\ sd_now = 0
    /\ sdc_wait = Wait_new

InitLockstep ==
    /\ pool_kind = "sync"
    /\ pool_config \in PoolConfigs
    /\ connections = [a \in Addrs |-> <<>>]
    /\ handles = {} /\ pending_returns = {} /\ next_client = 1 /\ now = 0
    /\ pool_result = [op |-> "new"]
    \* the other subsystems, idle
    /\ session_counter = 1 /\ session_calls = 0 /\ session_last = 0
    /\ session_threads = Threads_new
    /\ lockstep = [sync |-> Pool_new, async |-> Pool_new, last |-> [op |-> "new", at |-> 0]]
    /\ m_config = [auto_reconnect |-> FALSE, max_retries |-> [some |-> FALSE, n |-> 0],
                   retry_on_timeout |-> FALSE, retry_on_connection_reset |-> FALSE]
    /\ m_state = "Disconnected" /\ m_stream = FALSE /\ m_client_id = 1
    /\ m_session_counter = 1 /\ m_reconnect_attempts = 0 /\ m_pc = "idle"
    /\ m_request = [client_id |-> 0, session_id |-> 0]
    /\ m_reads = 0 /\ m_ops = 0 /\ m_discarded = {}
    /\ m_result = [op |-> "new", outcome |-> "ok", connects |-> 0]
    /\ tp_message = SomeIpMessage_new(Header(TheKey, Request), <<>>)
    /\ tp_other = SomeIpMessage_new(Header(TheKey, Request), <<>>)
    /\ tp_max_segment_payload = OffsetUnit
    /\ tp_pending = {} /\ tp_fed = <<>> /\ tp_feeds = 0 /\ contexts = EmptyMap
    /\ tp_timeout = 0 /\ tp_now = 0 /\ tp_last = [op |-> "new"]
    /\ c_messages = <<>> /\ c_wire = <<>> /\ reader = MessageReader_new
    /\ c_yielded = <<>> /\ c_last = [op |-> "new"]
    /\ offered_services = EmptyMap /\ subscriptions = EmptyMap
    /\ sds_result = [op |-> "new", err |-> FALSE, sent |-> <<>>]
    /\ services = EmptyMap /\ sdc_result = [op |-> "new"] /\ sd_now = 0
    /\ sdc_wait = Wait_new

InitManaged ==
    /\ m_config \in ManagedConfigs
    /\ m_state = "Disconnected" /\ m_stream = FALSE /\ m_client_id = 1
    /\ m_session_counter = 1 /\ m_reconnect_attempts = 0 /\ m_pc = "idle"
    /\ m_request = [client_id |-> 0, session_id |-> 0]
    /\ m_reads = 0 /\ m_ops = 0 /\ m_discarded = {}
    /\ m_result = [op |-> "new", outcome |-> "ok", connects |-> 0]
    \* the other subsystems, idle
    /\ session_counter = 1 /\ session_calls = 0 /\ session_last = 0
    /\ session_threads = Threads_new
    /\ pool_kind = "sync"
    /\ pool_config = [max_connections_per_endpoint |-> 1, idle_timeout |-> 1,
                      max_lifetime |-> [some |-> FALSE, d |-> 0]]
    /\ connections = [a \in Addrs |-> <<>>]
    /\ handles = {} /\ pending_returns = {} /\ next_client = 1 /\ now = 0
    /\ pool_result = [op |-> "new"]
    /\ lockstep = [sync |-> Pool_new, async |-> Pool_new, last |-> [op |-> "new", at |-> 0]]
    /\ tp_message = SomeIpMessage_new(Header(TheKey, Request), <<>>)
    /\ tp_other = SomeIpMessage_new(Header(TheKey, Request), <<>>)
    /\ tp_max_segment_payload = OffsetUnit
    /\ tp_pending = {} /\ tp_fed = <<>> /\ tp_feeds = 0 /\ contexts = EmptyMap
    /\ tp_timeout = 0 /\ tp_now = 0 /\ tp_last = [op |-> "new"]
    /\ c_messages = <<>> /\ c_wire = <<>> /\ reader = MessageReader_new
    /\ c_yielded = <<>> /\ c_last = [op |-> "new"]
    /\ offered_services = EmptyMap /\ subscriptions = EmptyMap
    /\ sds_result = [op |-> "new", err |-> FALSE, sent |-> <<>>]
    /\ services = EmptyMap /\ sdc_result = [op |-> "new"] /\ sd_now = 0
    /\ sdc_wait = Wait_new

InitRoundTrip ==
    /\ tp_message \in Messages
    /\ tp_other = tp_message
    /\ tp_max_segment_payload \in SegmentSizes
    /\ tp_pending = {segment_message(tp_message, tp_max_segment_payload)[i] :
                        i \in 1..Len(segment_message(tp_message, tp_max_segment_payload))}
    /\ tp_fed = <<>> /\ tp_feeds = 0 /\ contexts = EmptyMap
    /\ tp_timeout = 0 /\ tp_now = 0 /\ tp_last = [op |-> "new"]
    \* the other subsystems, idle
    /\ session_counter = 1 /\ session_calls = 0 /\ session_last = 0
    /\ session_threads = Threads_new
    /\ pool_kind = "sync"
    /\ pool_config = [max_connections_per_endpoint |-> 1, idle_timeout |-> 1,
                      max_lifetime |-> [some |-> FALSE, d |-> 0]]
    /\ connections = [a \in Addrs |-> <<>>]
    /\ handles = {} /\ pending_returns = {} /\ next_client = 1 /\ now = 0
    /\ pool_result = [op |-> "new"]
    /\ lockstep = [sync |-> Pool_new, async |-> Pool_new, last |-> [op |-> "new", at |-> 0]]
    /\ m_config = [auto_reconnect |-> FALSE, max_retries |-> [some |-> FALSE, n |-> 0],
                   retry_on_timeout |-> FALSE, retry_on_connection_reset |-> FALSE]
    /\ m_state = "Disconnected" /\ m_stream = FALSE /\ m_client_id = 1
    /\ m_session_counter = 1 /\ m_reconnect_attempts = 0 /\ m_pc = "idle"
    /\ m_request = [client_id |-> 0, session_id |-> 0]
    /\ m_reads = 0 /\ m_ops = 0 /\ m_discarded = {}
    /\ m_result = [op |-> "new", outcome |-> "ok", connects |-> 0]
    /\ c_messages = <<>> /\ c_wire = <<>> /\ reader = MessageReader_new
    /\ c_yielded = <<>> /\ c_last = [op |-> "new"]
    /\ offered_services = EmptyMap /\ subscriptions = EmptyMap
    /\ sds_result = [op |-> "new", err |-> FALSE, sent |-> <<>>]
    /\ services = EmptyMap /\ sdc_result = [op |-> "new"] /\ sd_now = 0
    /\ sdc_wait = Wait_new

InitInterleave ==
    /\ tp_max_segment_payload \in SegmentSizes
    /\ tp_message \in {SomeIpMessage_new(Header(TheKey, Request), Bytes(0, len)) :
                        len \in InterleavedLens(tp_max_segment_payload)}
    /\ tp_other \in {SomeIpMessage_new(Header(k, Notification), Bytes(128, len)) :
                        k \in OtherKeys, len \in InterleavedLens(tp_max_segment_payload)}
    /\ tp_pending = SegmentSet(tp_message, tp_max_segment_payload)
                    \cup SegmentSet(tp_other, tp_max_segment_payload)
    /\ tp_fed = <<>> /\ tp_feeds = 0 /\ contexts = EmptyMap
    /\ tp_timeout = 0 /\ tp_now = 0 /\ tp_last = [op |-> "new"]
    \* the other subsystems, idle
    /\ session_counter = 1 /\ session_calls = 0 /\ session_last = 0
    /\ session_threads = Threads_new
    /\ pool_kind = "sync"
    /\ pool_config = [max_connections_per_endpoint |-> 1, idle_timeout |-> 1,
                      max_lifetime |-> [some |-> FALSE, d |-> 0]]
    /\ connections = [a \in Addrs |-> <<>>]
    /\ handles = {} /\ pending_returns = {} /\ next_client = 1 /\ now = 0
    /\ pool_result = [op |-> "new"]
    /\ lockstep = [sync |-> Pool_new, async |-> Pool_new, last |-> [op |-> "new", at |-> 0]]
    /\ m_config = [auto_reconnect |-> FALSE, max_retries |-> [some |-> FALSE, n |-> 0],
                   retry_on_timeout |-> FALSE, retry_on_connection_reset |-> FALSE]
    /\ m_state = "Disconnected" /\ m_stream = FALSE /\ m_client_id = 1
    /\ m_session_counter = 1 /\ m_reconnect_attempts = 0 /\ m_pc = "idle"
    /\ m_request = [client_id |-> 0, session_id |-> 0]
    /\ m_reads = 0 /\ m_ops = 0 /\ m_discarded = {}
    /\ m_result = [op |-> "new", outcome |-> "ok", connects |-> 0]
    /\ c_messages = <<>> /\ c_wire = <<>> /\ reader = MessageReader_new
    /\ c_yielded = <<>> /\ c_last = [op |-> "new"]
    /\ offered_services = EmptyMap /\ subscriptions = EmptyMap
    /\ sds_result = [op |-> "new", err |-> FALSE, sent |-> <<>>]
    /\ services = EmptyMap /\ sdc_result = [op |-> "new"] /\ sd_now = 0
    /\ sdc_wait = Wait_new

InitSegment ==
    /\ tp_message \in Messages
    /\ tp_other = tp_message
    /\ tp_max_segment_payload \in SegmentSizes
    /\ tp_pending = {} /\ tp_fed = <<>> /\ tp_feeds = 0 /\ contexts = EmptyMap
    /\ tp_timeout = 0 /\ tp_now = 0 /\ tp_last = [op |-> "new"]
    \* the other subsystems, idle
    /\ session_counter = 1 /\ session_calls = 0 /\ session_last = 0
    /\ session_threads = Threads_new
    /\ pool_kind = "sync"
    /\ pool_config = [max_connections_per_endpoint |-> 1, idle_timeout |-> 1,
                      max_lifetime |-> [some |-> FALSE, d |-> 0]]
    /\ connections = [a \in Addrs |-> <<>>]
    /\ handles = {} /\ pending_returns = {} /\ next_client = 1 /\ now = 0
    /\ pool_result = [op |-> "new"]
    /\ lockstep = [sync |-> Pool_new, async |-> Pool_new, last |-> [op |-> "new", at |-> 0]]
    /\ m_config = [auto_reconnect |-> FALSE, max_retries |-> [some |-> FALSE, n |-> 0],
                   retry_on_timeout |-> FALSE, retry_on_connection_reset |-> FALSE]
    /\ m_state = "Disconnected" /\ m_stream = FALSE /\ m_client_id = 1
    /\ m_session_counter = 1 /\ m_reconnect_attempts = 0 /\ m_pc = "idle"
    /\ m_request = [client_id |-> 0, session_id |-> 0]
    /\ m_reads = 0 /\ m_ops = 0 /\ m_discarded = {}
    /\ m_result = [op |-> "new", outcome |-> "ok", connects |-> 0]
    /\ c_messages = <<>> /\ c_wire = <<>> /\ reader = MessageReader_new
    /\ c_yielded = <<>> /\ c_last = [op |-> "new"]
    /\ offered_services = EmptyMap /\ subscriptions = EmptyMap
    /\ sds_result = [op |-> "new", err |-> FALSE, sent |-> <<>>]
    /\ services = EmptyMap /\ sdc_result = [op |-> "new"] /\ sd_now = 0
    /\ sdc_wait = Wait_new

InitSegmentLoop ==
    /\ tp_message \in LoopMessages
    /\ tp_other = tp_message
    /\ tp_max_segment_payload \in LoopSizes
    /\ tp_pending = {} /\ tp_fed = <<>> /\ tp_feeds = 0 /\ contexts = EmptyMap
    /\ tp_timeout = 0 /\ tp_now = 0 /\ tp_last = [op |-> "new"]
    \* the other subsystems, idle
    /\ session_counter = 1 /\ session_calls = 0 /\ session_last = 0
    /\ session_threads = Threads_new
    /\ pool_kind = "sync"
    /\ pool_config = [max_connections_per_endpoint |-> 1, idle_timeout |-> 1,
                      max_lifetime |-> [some |-> FALSE, d |-> 0]]
    /\ connections = [a \in Addrs |-> <<>>]
    /\ handles = {} /\ pending_returns = {} /\ next_client = 1 /\ now = 0
    /\ pool_result = [op |-> "new"]
    /\ lockstep = [sync |-> Pool_new, async |-> Pool_new, last |-> [op |-> "new", at |-> 0]]
    /\ m_config = [auto_reconnect |-> FALSE, max_retries |-> [some |-> FALSE, n |-> 0],
                   retry_on_timeout |-> FALSE, retry_on_connection_reset |-> FALSE]
    /\ m_state = "Disconnected" /\ m_stream = FALSE /\ m_client_id = 1
    /\ m_session_counter = 1 /\ m_reconnect_attempts = 0 /\ m_pc = "idle"
    /\ m_request = [client_id |-> 0, session_id |-> 0]
    /\ m_reads = 0 /\ m_ops = 0 /\ m_discarded = {}
    /\ m_result = [op |-> "new", outcome |-> "ok", connects |-> 0]
    /\ c_messages = <<>> /\ c_wire = <<>> /\ reader = MessageReader_new
    /\ c_yielded = <<>> /\ c_last = [op |-> "new"]
    /\ offered_services = EmptyMap /\ subscriptions = EmptyMap
    /\ sds_result = [op |-> "new", err |-> FALSE, sent |-> <<>>]
    /\ services = EmptyMap /\ sdc_result = [op |-> "new"] /\ sd_now = 0
    /\ sdc_wait = Wait_new

InitReader ==
    /\ c_messages \in Streams
    /\ c_wire = encode_all(c_messages, <<>>)
    /\ reader = MessageReader_new
    /\ c_yielded = <<>> /\ c_last = [op |-> "new"]
    \* the other subsystems, idle
    /\ session_counter = 1 /\ session_calls = 0 /\ session_last = 0
    /\ session_threads = Threads_new
    /\ pool_kind = "sync"
    /\ pool_config = [max_connections_per_endpoint |-> 1, idle_timeout |-> 1,
                      max_lifetime |-> [some |-> FALSE, d |-> 0]]
    /\ connections = [a \in Addrs |-> <<>>]
    /\ handles = {} /\ pending_returns = {} /\ next_client = 1 /\ now = 0
    /\ pool_result = [op |-> "new"]
    /\ lockstep = [sync |-> Pool_new, async |-> Pool_new, last |-> [op |-> "new", at |-> 0]]
    /\ m_config = [auto_reconnect |-> FALSE, max_retries |-> [some |-> FALSE, n |-> 0],
                   retry_on_timeout |-> FALSE, retry_on_connection_reset |-> FALSE]
    /\ m_state = "Disconnected" /\ m_stream = FALSE /\ m_client_id = 1
    /\ m_session_counter = 1 /\ m_reconnect_attempts = 0 /\ m_pc = "idle"
    /\ m_request = [client_id |-> 0, session_id |-> 0]
    /\ m_reads = 0 /\ m_ops = 0 /\ m_discarded = {}
    /\ m_result = [op |-> "new", outcome |-> "ok", connects |-> 0]
    /\ tp_message = SomeIpMessage_new(Header(TheKey, Request), <<>>)
    /\ tp_other = SomeIpMessage_new(Header(TheKey, Request), <<>>)
    /\ tp_max_segment_payload = OffsetUnit
    /\ tp_pending = {} /\ tp_fed = <<>> /\ tp_feeds = 0 /\ contexts = EmptyMap
    /\ tp_timeout = 0 /\ tp_now = 0 /\ tp_last = [op |-> "new"]
    /\ offered_services = EmptyMap /\ subscriptions = EmptyMap
    /\ sds_result = [op |-> "new", err |-> FALSE, sent |-> <<>>]
    /\ services = EmptyMap /\ sdc_result = [op |-> "new"] /\ sd_now = 0
    /\ sdc_wait = Wait_new

InitReaderFail ==
    /\ c_messages \in BrokenStreams
    /\ c_wire = encode_all(c_messages, <<>>)
    /\ reader = MessageReader_new
    /\ c_yielded = <<>> /\ c_last = [op |-> "new"]
    \* the other subsystems, idle
    /\ session_counter = 1 /\ session_calls = 0 /\ session_last = 0
    /\ session_threads = Threads_new
    /\ pool_kind = "sync"
    /\ pool_config = [max_connections_per_endpoint |-> 1, idle_timeout |-> 1,
                      max_lifetime |-> [some |-> FALSE, d |-> 0]]
    /\ connections = [a \in Addrs |-> <<>>]
    /\ handles = {} /\ pending_returns = {} /\ next_client = 1 /\ now = 0
    /\ pool_result = [op |-> "new"]
    /\ lockstep = [sync |-> Pool_new, async |-> Pool_new, last |-> [op |-> "new", at |-> 0]]
    /\ m_config = [auto_reconnect |-> FALSE, max_retries |-> [some |-> FALSE, n |-> 0],
                   retry_on_timeout |-> FALSE, retry_on_connection_reset |-> FALSE]
    /\ m_state = "Disconnected" /\ m_stream = FALSE /\ m_client_id = 1
    /\ m_session_counter = 1 /\ m_reconnect_attempts = 0 /\ m_pc = "idle"
    /\ m_request = [client_id |-> 0, session_id |-> 0]
    /\ m_reads = 0 /\ m_ops = 0 /\ m_discarded = {}
    /\ m_result = [op |-> "new", outcome |-> "ok", connects |-> 0]
    /\ tp_message = SomeIpMessage_new(Header(TheKey, Request), <<>>)
    /\ tp_other = SomeIpMessage_new(Header(TheKey, Request), <<>>)
    /\ tp_max_segment_payload = OffsetUnit
    /\ tp_pending = {} /\ tp_fed = <<>> /\ tp_feeds = 0 /\ contexts = EmptyMap
    /\ tp_timeout = 0 /\ tp_now = 0 /\ tp_last = [op |-> "new"]
    /\ offered_services = EmptyMap /\ subscriptions = EmptyMap
    /\ sds_result = [op |-> "new", err |-> FALSE, sent |-> <<>>]
    /\ services = EmptyMap /\ sdc_result = [op |-> "new"] /\ sd_now = 0
    /\ sdc_wait = Wait_new

InitCodec ==
    /\ c_messages \in {<<message>> : message \in CodecMessages}
    /\ c_wire = <<>> /\ reader = MessageReader_new
    /\ c_yielded = <<>> /\ c_last = [op |-> "new"]
    \* the other subsystems, idle
    /\ session_counter = 1 /\ session_calls = 0 /\ session_last = 0
    /\ session_threads = Threads_new
    /\ pool_kind = "sync"
    /\ pool_config = [max_connections_per_endpoint |-> 1, idle_timeout |-> 1,
                      max_lifetime |-> [some |-> FALSE, d |-> 0]]
    /\ connections = [a \in Addrs |-> <<>>]
    /\ handles = {} /\ pending_returns = {} /\ next_client = 1 /\ now = 0
    /\ pool_result = [op |-> "new"]
    /\ lockstep = [sync |-> Pool_new, async |-> Pool_new, last |-> [op |-> "new", at |-> 0]]
    /\ m_config = [auto_reconnect |-> FALSE, max_retries |-> [some |-> FALSE, n |-> 0],
                   retry_on_timeout |-> FALSE, retry_on_connection_reset |-> FALSE]
    /\ m_state = "Disconnected" /\ m_stream = FALSE /\ m_client_id = 1
    /\ m_session_counter = 1 /\ m_reconnect_attempts = 0 /\ m_pc = "idle"
    /\ m_request = [client_id |-> 0, session_id |-> 0]
    /\ m_reads = 0 /\ m_ops = 0 /\ m_discarded = {}
    /\ m_result = [op |-> "new", outcome |-> "ok", connects |-> 0]
    /\ tp_message = SomeIpMessage_new(Header(TheKey, Request), <<>>)
    /\ tp_other = SomeIpMessage_new(Header(TheKey, Request), <<>>)
    /\ tp_max_segment_payload = OffsetUnit
    /\ tp_pending = {} /\ tp_fed = <<>> /\ tp_feeds = 0 /\ contexts = EmptyMap
    /\ tp_timeout = 0 /\ tp_now = 0 /\ tp_last = [op |-> "new"]
    /\ offered_services = EmptyMap /\ subscriptions = EmptyMap
    /\ sds_result = [op |-> "new", err |-> FALSE, sent |-> <<>>]
    /\ services = EmptyMap /\ sdc_result = [op |-> "new"] /\ sd_now = 0
    /\ sdc_wait = Wait_new

InitSdCodec ==
    /\ c_messages \in {<<msg>> : msg \in WireMessages}
    /\ c_wire = <<>> /\ reader = MessageReader_new
    /\ c_yielded = <<>> /\ c_last = [op |-> "new"]
    \* the other subsystems, idle
    /\ session_counter = 1 /\ session_calls = 0 /\ session_last = 0
    /\ session_threads = Threads_new
    /\ pool_kind = "sync"
    /\ pool_config = [max_connections_per_endpoint |-> 1, idle_timeout |-> 1,
                      max_lifetime |-> [some |-> FALSE, d |-> 0]]
    /\ connections = [a \in Addrs |-> <<>>]
    /\ handles = {} /\ pending_returns = {} /\ next_client = 1 /\ now = 0
    /\ pool_result = [op |-> "new"]
    /\ lockstep = [sync |-> Pool_new, async |-> Pool_new, last |-> [op |-> "new", at |-> 0]]
    /\ m_config = [auto_reconnect |-> FALSE, max_retries |-> [some |-> FALSE, n |-> 0],
                   retry_on_timeout |-> FALSE, retry_on_connection_reset |-> FALSE]
    /\ m_state = "Disconnected" /\ m_stream = FALSE /\ m_client_id = 1
    /\ m_session_counter = 1 /\ m_reconnect_attempts = 0 /\ m_pc = "idle"
    /\ m_request = [client_id |-> 0, session_id |-> 0]
    /\ m_reads = 0 /\ m_ops = 0 /\ m_discarded = {}
    /\ m_result = [op |-> "new", outcome |-> "ok", connects |-> 0]
    /\ tp_message = SomeIpMessage_new(Header(TheKey, Request), <<>>)
    /\ tp_other = SomeIpMessage_new(Header(TheKey, Request), <<>>)
    /\ tp_max_segment_payload = OffsetUnit
    /\ tp_pending = {} /\ tp_fed = <<>> /\ tp_feeds = 0 /\ contexts = EmptyMap
    /\ tp_timeout = 0 /\ tp_now = 0 /\ tp_last = [op |-> "new"]
    /\ offered_services = EmptyMap /\ subscriptions = EmptyMap
    /\ sds_result = [op |-> "new", err |-> FALSE, sent |-> <<>>]
    /\ services = EmptyMap /\ sdc_result = [op |-> "new"] /\ sd_now = 0
    /\ sdc_wait = Wait_new

InitSdResolve ==
    /\ c_messages \in {<<msg>> : msg \in ResolveMessages}
    /\ c_wire = <<>> /\ reader = MessageReader_new
    /\ c_yielded = <<>> /\ c_last = [op |-> "new"]
    \* the other subsystems, idle
    /\ session_counter = 1 /\ session_calls = 0 /\ session_last = 0
    /\ session_threads = Threads_new
    /\ pool_kind = "sync"
    /\ pool_config = [max_connections_per_endpoint |-> 1, idle_timeout |-> 1,
                      max_lifetime |-> [some |-> FALSE, d |-> 0]]
    /\ connections = [a \in Addrs |-> <<>>]
    /\ handles = {} /\ pending_returns = {} /\ next_client = 1 /\ now = 0
    /\ pool_result = [op |-> "new"]
    /\ lockstep = [sync |-> Pool_new, async |-> Pool_new, last |-> [op |-> "new", at |-> 0]]
    /\ m_config = [auto_reconnect |-> FALSE, max_retries |-> [some |-> FALSE, n |-> 0],
                   retry_on_timeout |-> FALSE, retry_on_connection_reset |-> FALSE]
    /\ m_state = "Disconnected" /\ m_stream = FALSE /\ m_client_id = 1
    /\ m_session_counter = 1 /\ m_reconnect_attempts = 0 /\ m_pc = "idle"
    /\ m_request = [client_id |-> 0, session_id |-> 0]
    /\ m_reads = 0 /\ m_ops = 0 /\ m_discarded = {}
    /\ m_result = [op |-> "new", outcome |-> "ok", connects |-> 0]
    /\ tp_message = SomeIpMessage_new(Header(TheKey, Request), <<>>)
    /\ tp_other = SomeIpMessage_new(Header(TheKey, Request), <<>>)
    /\ tp_max_segment_payload = OffsetUnit
    /\ tp_pending = {} /\ tp_fed = <<>> /\ tp_feeds = 0 /\ contexts = EmptyMap
    /\ tp_timeout = 0 /\ tp_now = 0 /\ tp_last = [op |-> "new"]
    /\ offered_services = EmptyMap /\ subscriptions = EmptyMap
    /\ sds_result = [op |-> "new", err |-> FALSE, sent |-> <<>>]
    /\ services = EmptyMap /\ sdc_result = [op |-> "new"] /\ sd_now = 0
    /\ sdc_wait = Wait_new

InitSdCache ==
    /\ offered_services = EmptyMap /\ subscriptions = EmptyMap
    /\ sds_result = [op |-> "new", err |-> FALSE, sent |-> <<>>]
    /\ services = EmptyMap /\ sdc_result = [op |-> "new"] /\ sd_now = 0
    /\ sdc_wait = Wait_new
    \* the other subsystems, idle
    /\ session_counter = 1 /\ session_calls = 0 /\ session_last = 0
    /\ session_threads = Threads_new
    /\ pool_kind = "sync"
    /\ pool_config = [max_connections_per_endpoint |-> 1, idle_timeout |-> 1,
                      max_lifetime |-> [some |-> FALSE, d |-> 0]]
    /\ connections = [a \in Addrs |-> <<>>]
    /\ handles = {} /\ pending_returns = {} /\ next_client = 1 /\ now = 0
    /\ pool_result = [op |-> "new"]
    /\ lockstep = [sync |-> Pool_new, async |-> Pool_new, last |-> [op |-> "new", at |-> 0]]
    /\ m_config = [auto_reconnect |-> FALSE, max_retries |-> [some |-> FALSE, n |-> 0],
                   retry_on_timeout |-> FALSE, retry_on_connection_reset |-> FALSE]
    /\ m_state = "Disconnected" /\ m_stream = FALSE /\ m_client_id = 1
    /\ m_session_counter = 1 /\ m_reconnect_attempts = 0 /\ m_pc = "idle"
    /\ m_request = [client_id |-> 0, session_id |-> 0]
    /\ m_reads = 0 /\ m_ops = 0 /\ m_discarded = {}
    /\ m_result = [op |-> "new", outcome |-> "ok", connects |-> 0]
    /\ tp_message = SomeIpMessage_new(Header(TheKey, Request), <<>>)
    /\ tp_other = SomeIpMessage_new(Header(TheKey, Request), <<>>)
    /\ tp_max_segment_payload = OffsetUnit
    /\ tp_pending = {} /\ tp_fed = <<>> /\ tp_feeds = 0 /\ contexts = EmptyMap
    /\ tp_timeout = 0 /\ tp_now = 0 /\ tp_last = [op |-> "new"]
    /\ c_messages = <<>> /\ c_wire = <<>> /\ reader = MessageReader_new
    /\ c_yielded = <<>> /\ c_last = [op |-> "new"]

InitSdWait ==
    /\ offered_services = EmptyMap /\ subscriptions = EmptyMap
    /\ sds_result = [op |-> "new", err |-> FALSE, sent |-> <<>>]
    /\ services = EmptyMap /\ sdc_result = [op |-> "new"] /\ sd_now = 0
    /\ sdc_wait = Wait_new
    \* the other subsystems, idle
    /\ session_counter = 1 /\ session_calls = 0 /\ session_last = 0
    /\ session_threads = Threads_new
    /\ pool_kind = "sync"
    /\ pool_config = [max_connections_per_endpoint |-> 1, idle_timeout |-> 1,
                      max_lifetime |-> [some |-> FALSE, d |-> 0]]
    /\ connections = [a \in Addrs |-> <<>>]
    /\ handles = {} /\ pending_returns = {} /\ next_client = 1 /\ now = 0
    /\ pool_result = [op |-> "new"]
    /\ lockstep = [sync |-> Pool_new, async |-> Pool_new, last |-> [op |-> "new", at |-> 0]]
    /\ m_config = [auto_reconnect |-> FALSE, max_retries |-> [some |-> FALSE, n |-> 0],
                   retry_on_timeout |-> FALSE, retry_on_connection_reset |-> FALSE]
    /\ m_state = "Disconnected" /\ m_stream = FALSE /\ m_client_id = 1
    /\ m_session_counter = 1 /\ m_reconnect_attempts = 0 /\ m_pc = "idle"
    /\ m_request = [client_id |-> 0, session_id |-> 0]
    /\ m_reads = 0 /\ m_ops = 0 /\ m_discarded = {}
    /\ m_result = [op |-> "new", outcome |-> "ok", connects |-> 0]
    /\ tp_message = SomeIpMessage_new(Header(TheKey, Request), <<>>)
    /\ tp_other = SomeIpMessage_new(Header(TheKey, Request), <<>>)
    /\ tp_max_segment_payload = OffsetUnit
    /\ tp_pending = {} /\ tp_fed = <<>> /\ tp_feeds = 0 /\ contexts = EmptyMap
    /\ tp_timeout = 0 /\ tp_now = 0 /\ tp_last = [op |-> "new"]
    /\ c_messages = <<>> /\ c_wire = <<>> /\ reader = MessageReader_new
    /\ c_yielded = <<>> /\ c_last = [op |-> "new"]

InitSdWire ==
    /\ offered_services = EmptyMap /\ subscriptions = EmptyMap
    /\ sds_result = [op |-> "new", err |-> FALSE, sent |-> <<>>]
    /\ services = EmptyMap /\ sdc_result = [op |-> "new"] /\ sd_now = 0
    /\ sdc_wait = Wait_new
    \* the other subsystems, idle
    /\ session_counter = 1 /\ session_calls = 0 /\ session_last = 0
    /\ session_threads = Threads_new
    /\ pool_kind = "sync"
    /\ pool_config = [max_connections_per_endpoint |-> 1, idle_timeout |-> 1,
                      max_lifetime |-> [some |-> FALSE, d |-> 0]]
    /\ connections = [a \in Addrs |-> <<>>]
    /\ handles = {} /\ pending_returns = {} /\ next_client = 1 /\ now = 0
    /\ pool_result = [op |-> "new"]
    /\ lockstep = [sync |-> Pool_new, async |-> Pool_new, last |-> [op |-> "new", at |-> 0]]
    /\ m_config = [auto_reconnect |-> FALSE, max_retries |-> [some |-> FALSE, n |-> 0],
                   retry_on_timeout |-> FALSE, retry_on_connection_reset |-> FALSE]
    /\ m_state = "Disconnected" /\ m_stream = FALSE /\ m_client_id = 1
    /\ m_session_counter = 1 /\ m_reconnect_attempts = 0 /\ m_pc = "idle"
    /\ m_request = [client_id |-> 0, session_id |-> 0]
    /\ m_reads = 0 /\ m_ops = 0 /\ m_discarded = {}
    /\ m_result = [op |-> "new", outcome |-> "ok", connects |-> 0]
    /\ tp_message = SomeIpMessage_new(Header(TheKey, Request), <<>>)
    /\ tp_other = SomeIpMessage_new(Header(TheKey, Request), <<>>)
    /\ tp_max_segment_payload = OffsetUnit
    /\ tp_pending = {} /\ tp_fed = <<>> /\ tp_feeds = 0 /\ contexts = EmptyMap
    /\ tp_timeout = 0 /\ tp_now = 0 /\ tp_last = [op |-> "new"]
    /\ c_messages = <<>> /\ c_wire = <<>> /\ reader = MessageReader_new
    /\ c_yielded = <<>> /\ c_last = [op |-> "new"]

InitSdSubscribe ==
    /\ offered_services = EmptyMap /\ subscriptions = EmptyMap
    /\ sds_result = [op |-> "new", err |-> FALSE, sent |-> <<>>]
    /\ services = EmptyMap /\ sdc_result = [op |-> "new"] /\ sd_now = 0
    /\ sdc_wait = Wait_new
    \* the other subsystems, idle
    /\ session_counter = 1 /\ session_calls = 0 /\ session_last = 0
    /\ session_threads = Threads_new
    /\ pool_kind = "sync"
    /\ pool_config = [max_connections_per_endpoint |-> 1, idle_timeout |-> 1,
                      max_lifetime |-> [some |-> FALSE, d |-> 0]]
    /\ connections = [a \in Addrs |-> <<>>]
    /\ handles = {} /\ pending_returns = {} /\ next_client = 1 /\ now = 0
    /\ pool_result = [op |-> "new"]
    /\ lockstep = [sync |-> Pool_new, async |-> Pool_new, last |-> [op |-> "new", at |-> 0]]
    /\ m_config = [auto_reconnect |-> FALSE, max_retries |-> [some |-> FALSE, n |-> 0],
                   retry_on_timeout |-> FALSE, retry_on_connection_reset |-> FALSE]
    /\ m_state = "Disconnected" /\ m_stream = FALSE /\ m_client_id = 1
    /\ m_session_counter = 1 /\ m_reconnect_attempts = 0 /\ m_pc = "idle"
    /\ m_request = [client_id |-> 0, session_id |-> 0]
    /\ m_reads = 0 /\ m_ops = 0 /\ m_discarded = {}
    /\ m_result = [op |-> "new", outcome |-> "ok", connects |-> 0]
    /\ tp_message = SomeIpMessage_new(Header(TheKey, Request), <<>>)
    /\ tp_other = SomeIpMessage_new(Header(TheKey, Request), <<>>)
    /\ tp_max_segment_payload = OffsetUnit
    /\ tp_pending = {} /\ tp_fed = <<>> /\ tp_feeds = 0 /\ contexts = EmptyMap
    /\ tp_timeout = 0 /\ tp_now = 0 /\ tp_last = [op |-> "new"]
    /\ c_messages = <<>> /\ c_wire = <<>> /\ reader = MessageReader_new
    /\ c_yielded = <<>> /\ c_last = [op |-> "new"]

InitTp ==
    /\ tp_message = SomeIpMessage_new(Header(TheKey, Request), <<>>)
    /\ tp_other = SomeIpMessage_new(Header(TheKey, Request), <<>>)
    /\ tp_max_segment_payload = OffsetUnit
    /\ tp_pending = {} /\ tp_fed = <<>> /\ tp_feeds = 0 /\ contexts = EmptyMap
    /\ tp_timeout = 0 /\ tp_now = 0 /\ tp_last = [op |-> "new"]
    \* the other subsystems, idle
    /\ session_counter = 1 /\ session_calls = 0 /\ session_last = 0
    /\ session_threads = Threads_new
    /\ pool_kind = "sync"
    /\ pool_config = [max_connections_per_endpoint |-> 1, idle_timeout |-> 1,
                      max_lifetime |-> [some |-> FALSE, d |-> 0]]
    /\ connections = [a \in Addrs |-> <<>>]
    /\ handles = {} /\ pending_returns = {} /\ next_client = 1 /\ now = 0
    /\ pool_result = [op |-> "new"]
    /\ lockstep = [sync |-> Pool_new, async |-> Pool_new, last |-> [op |-> "new", at |-> 0]]
    /\ m_config = [auto_reconnect |-> FALSE, max_retries |-> [some |-> FALSE, n |-> 0],
                   retry_on_timeout |-> FALSE, retry_on_connection_reset |-> FALSE]
    /\ m_state = "Disconnected" /\ m_stream = FALSE /\ m_client_id = 1
    /\ m_session_counter = 1 /\ m_reconnect_attempts = 0 /\ m_pc = "idle"
    /\ m_request = [client_id |-> 0, session_id |-> 0]
    /\ m_reads = 0 /\ m_ops = 0 /\ m_discarded = {}
    /\ m_result = [op |-> "new", outcome |-> "ok", connects |-> 0]
    /\ c_messages = <<>> /\ c_wire = <<>> /\ reader = MessageReader_new
    /\ c_yielded = <<>> /\ c_last = [op |-> "new"]
    /\ offered_services = EmptyMap /\ subscriptions = EmptyMap
    /\ sds_result = [op |-> "new", err |-> FALSE, sent |-> <<>>]
    /\ services = EmptyMap /\ sdc_result = [op |-> "new"] /\ sd_now = 0
    /\ sdc_wait = Wait_new

InitSdServer ==
    /\ offered_services = EmptyMap /\ subscriptions = EmptyMap
    /\ sds_result = [op |-> "new", err |-> FALSE, sent |-> <<>>]
    /\ services = EmptyMap /\ sdc_result = [op |-> "new"] /\ sd_now = 0
    /\ sdc_wait = Wait_new
    \* the other subsystems, idle
    /\ session_counter = 1 /\ session_calls = 0 /\ session_last = 0
    /\ session_threads = Threads_new
    /\ pool_kind = "sync"
    /\ pool_config = [max_connections_per_endpoint |-> 1, idle_timeout |-> 1,
                      max_lifetime |-> [some |-> FALSE, d |-> 0]]
    /\ connections = [a \in Addrs |-> <<>>]
    /\ handles = {} /\ pending_returns = {} /\ next_client = 1 /\ now = 0
    /\ pool_result = [op |-> "new"]
    /\ lockstep = [sync |-> Pool_new, async |-> Pool_new, last |-> [op |-> "new", at |-> 0]]
    /\ m_config = [auto_reconnect |-> FALSE, max_retries |-> [some |-> FALSE, n |-> 0],
                   retry_on_timeout |-> FALSE, retry_on_connection_reset |-> FALSE]
    /\ m_state = "Disconnected" /\ m_stream = FALSE /\ m_client_id = 1
    /\ m_session_counter = 1 /\ m_reconnect_attempts = 0 /\ m_pc = "idle"
    /\ m_request = [client_id |-> 0, session_id |-> 0]
    /\ m_reads = 0 /\ m_ops = 0 /\ m_discarded = {}
    /\ m_result = [op |-> "new", outcome |-> "ok", connects |-> 0]
    /\ tp_message = SomeIpMessage_new(Header(TheKey, Request), <<>>)
    /\ tp_other = SomeIpMessage_new(Header(TheKey, Request), <<>>)
    /\ tp_max_segment_payload = OffsetUnit
    /\ tp_pending = {} /\ tp_fed = <<>> /\ tp_feeds = 0 /\ contexts = EmptyMap
    /\ tp_timeout = 0 /\ tp_now = 0 /\ tp_last = [op |-> "new"]
    /\ c_messages = <<>> /\ c_wire = <<>> /\ reader = MessageReader_new
    /\ c_yielded = <<>> /\ c_last = [op |-> "new"]

InitSdClient ==
    /\ offered_services = EmptyMap /\ subscriptions = EmptyMap
    /\ sds_result = [op |-> "new", err |-> FALSE, sent |-> <<>>]
    /\ services = EmptyMap /\ sdc_result = [op |-> "new"] /\ sd_now = 0
    /\ sdc_wait = Wait_new
    \* the other subsystems, idle
    /\ session_counter = 1 /\ session_calls = 0 /\ session_last = 0
    /\ session_threads = Threads_new
    /\ pool_kind = "sync"
    /\ pool_config = [max_connections_per_endpoint |-> 1, idle_timeout |-> 1,
                      max_lifetime |-> [some |-> FALSE, d |-> 0]]
    /\ connections = [a \in Addrs |-> <<>>]
    /\ handles = {} /\ pending_returns = {} /\ next_client = 1 /\ now = 0
    /\ pool_result = [op |-> "new"]
    /\ lockstep = [sync |-> Pool_new, async |-> Pool_new, last |-> [op |-> "new", at |-> 0]]
    /\ m_config = [auto_reconnect |-> FALSE, max_retries |-> [some |-> FALSE, n |-> 0],
                   retry_on_timeout |-> FALSE, retry_on_connection_reset |-> FALSE]
    /\ m_state = "Disconnected" /\ m_stream = FALSE /\ m_client_id = 1
    /\ m_session_counter = 1 /\ m_reconnect_attempts = 0 /\ m_pc = "idle"
    /\ m_request = [client_id |-> 0, session_id |-> 0]
    /\ m_reads = 0 /\ m_ops = 0 /\ m_discarded = {}
    /\ m_result = [op |-> "new", outcome |-> "ok", connects |-> 0]
    /\ tp_message = SomeIpMessage_new(Header(TheKey, Request), <<>>)
    /\ tp_other = SomeIpMessage_new(Header(TheKey, Request), <<>>)
    /\ tp_max_segment_payload = OffsetUnit
    /\ tp_pending = {} /\ tp_fed = <<>> /\ tp_feeds = 0 /\ contexts = EmptyMap
    /\ tp_timeout = 0 /\ tp_now = 0 /\ tp_last = [op |-> "new"]
    /\ c_messages = <<>> /\ c_wire = <<>> /\ reader = MessageReader_new
    /\ c_yielded = <<>> /\ c_last = [op |-> "new"]

InitTpTimeout ==
    /\ tp_message = SomeIpMessage_new(Header(TheKey, Request), <<>>)
    /\ tp_other = SomeIpMessage_new(Header(TheKey, Request), <<>>)
    /\ tp_max_segment_payload = OffsetUnit
    /\ tp_pending = {} /\ tp_fed = <<>> /\ tp_feeds = 0 /\ contexts = EmptyMap
    /\ tp_timeout \in {0, 1} /\ tp_now = 0 /\ tp_last = [op |-> "new"]
    \* the other subsystems, idle
    /\ session_counter = 1 /\ session_calls = 0 /\ session_last = 0
    /\ session_threads = Threads_new
    /\ pool_kind = "sync"
    /\ pool_config = [max_connections_per_endpoint |-> 1, idle_timeout |-> 1,
                      max_lifetime |-> [some |-> FALSE, d |-> 0]]
    /\ connections = [a \in Addrs |-> <<>>]
    /\ handles = {} /\ pending_returns = {} /\ next_client = 1 /\ now = 0
    /\ pool_result = [op |-> "new"]
    /\ lockstep = [sync |-> Pool_new, async |-> Pool_new, last |-> [op |-> "new", at |-> 0]]
    /\ m_config = [auto_reconnect |-> FALSE, max_retries |-> [some |-> FALSE, n |-> 0],
                   retry_on_timeout |-> FALSE, retry_on_connection_reset |-> FALSE]
    /\ m_state = "Disconnected" /\ m_stream = FALSE /\ m_client_id = 1
    /\ m_session_counter = 1 /\ m_reconnect_attempts = 0 /\ m_pc = "idle"
    /\ m_request = [client_id |-> 0, session_id |-> 0]
    /\ m_reads = 0 /\ m_ops = 0 /\ m_discarded = {}
    /\ m_result = [op |-> "new", outcome |-> "ok", connects |-> 0]
    /\ c_messages = <<>> /\ c_wire = <<>> /\ reader = MessageReader_new
    /\ c_yielded = <<>> /\ c_last = [op |-> "new"]
    /\ offered_services = EmptyMap /\ subscriptions = EmptyMap
    /\ sds_result = [op |-> "new", err |-> FALSE, sent |-> <<>>]
    /\ services = EmptyMap /\ sdc_result = [op |-> "new"] /\ sd_now = 0
    /\ sdc_wait = Wait_new

InitTpWire ==
    /\ tp_message = SomeIpMessage_new(Header(TheKey, Request), <<>>)
    /\ tp_other = SomeIpMessage_new(Header(TheKey, Request), <<>>)
    /\ tp_max_segment_payload = OffsetUnit
    /\ tp_pending = {} /\ tp_fed = <<>> /\ tp_feeds = 0 /\ contexts = EmptyMap
    /\ tp_timeout = 0 /\ tp_now = 0 /\ tp_last = [op |-> "new"]
    \* the other subsystems, idle
    /\ session_counter = 1 /\ session_calls = 0 /\ session_last = 0
    /\ session_threads = Threads_new
    /\ pool_kind = "sync"
    /\ pool_config = [max_connections_per_endpoint |-> 1, idle_timeout |-> 1,
                      max_lifetime |-> [some |-> FALSE, d |-> 0]]
    /\ connections = [a \in Addrs |-> <<>>]
    /\ handles = {} /\ pending_returns = {} /\ next_client = 1 /\ now = 0
    /\ pool_result = [op |-> "new"]
    /\ lockstep = [sync |-> Pool_new, async |-> Pool_new, last |-> [op |-> "new", at |-> 0]]
    /\ m_config = [auto_reconnect |-> FALSE, max_retries |-> [some |-> FALSE, n |-> 0],
                   retry_on_timeout |-> FALSE, retry_on_connection_reset |-> FALSE]
    /\ m_state = "Disconnected" /\ m_stream = FALSE /\ m_client_id = 1
    /\ m_session_counter = 1 /\ m_reconnect_attempts = 0 /\ m_pc = "idle"
    /\ m_request = [client_id |-> 0, session_id |-> 0]
    /\ m_reads = 0 /\ m_ops = 0 /\ m_discarded = {}
    /\ m_result = [op |-> "new", outcome |-> "ok", connects |-> 0]
    /\ c_messages = <<>> /\ c_wire = <<>> /\ reader = MessageReader_new
    /\ c_yielded = <<>> /\ c_last = [op |-> "new"]
    /\ offered_services = EmptyMap /\ subscriptions = EmptyMap
    /\ sds_result = [op |-> "new", err |-> FALSE, sent |-> <<>>]
    /\ services = EmptyMap /\ sdc_result = [op |-> "new"] /\ sd_now = 0
    /\ sdc_wait = Wait_new

InitTpCleanup ==
    /\ tp_message = SomeIpMessage_new(Header(TheKey, Request), <<>>)
    /\ tp_other = SomeIpMessage_new(Header(TheKey, Request), <<>>)
    /\ tp_max_segment_payload = OffsetUnit
    /\ tp_pending = {} /\ tp_fed = <<>> /\ tp_feeds = 0 /\ contexts = EmptyMap
    /\ tp_timeout \in {0, 1} /\ tp_now = 0 /\ tp_last = [op |-> "new"]
    \* the other subsystems, idle
    /\ session_counter = 1 /\ session_calls = 0 /\ session_last = 0
    /\ session_threads = Threads_new
    /\ pool_kind = "sync"
    /\ pool_config = [max_connections_per_endpoint |-> 1, idle_timeout |-> 1,
                      max_lifetime |-> [some |-> FALSE, d |-> 0]]
    /\ connections = [a \in Addrs |-> <<>>]
    /\ handles = {} /\ pending_returns = {} /\ next_client = 1 /\ now = 0
    /\ pool_result = [op |-> "new"]
    /\ lockstep = [sync |-> Pool_new, async |-> Pool_new, last |-> [op |-> "new", at |-> 0]]
    /\ m_config = [auto_reconnect |-> FALSE, max_retries |-> [some |-> FALSE, n |-> 0],
                   retry_on_timeout |-> FALSE, retry_on_connection_reset |-> FALSE]
    /\ m_state = "Disconnected" /\ m_stream = FALSE /\ m_client_id = 1
    /\ m_session_counter = 1 /\ m_reconnect_attempts = 0 /\ m_pc = "idle"
    /\ m_request = [client_id |-> 0, session_id |-> 0]
    /\ m_reads = 0 /\ m_ops = 0 /\ m_discarded = {}
    /\ m_result = [op |-> "new", outcome |-> "ok", connects |-> 0]
    /\ c_messages = <<>> /\ c_wire = <<>> /\ reader = MessageReader_new
    /\ c_yielded = <<>> /\ c_last = [op |-> "new"]
    /\ offered_services = EmptyMap /\ subscriptions = EmptyMap
    /\ sds_result = [op |-> "new", err |-> FALSE, sent |-> <<>>]
    /\ services = EmptyMap /\ sdc_result = [op |-> "new"] /\ sd_now = 0
    /\ sdc_wait = Wait_new

SpecSession == InitSession /\ [][SessionNext]_vars

SpecSessionThreads == InitSessionThreads /\ [][SessionThreadsNext]_vars

SpecPool == InitPool /\ [][PoolNext]_vars

SpecLockstep == InitLockstep /\ [][LockstepNext]_vars

SpecManaged == InitManaged /\ [][ManagedNext]_vars

SpecRoundTrip == InitRoundTrip /\ [][RoundTripNext]_vars

SpecInterleave == InitInterleave /\ [][RoundTripNext]_vars

SpecSegment == InitSegment /\ [][SegmentNext]_vars

SpecSegmentLoop == InitSegmentLoop /\ [][SegmentLoopNext]_vars /\ WF_vars(SegmentTurn)

SpecReader == InitReader /\ [][ReaderNext]_vars

SpecReaderFail == InitReaderFail /\ [][ReaderFailNext]_vars

SpecCodec == InitCodec /\ [][CodecNext]_vars

SpecSdCodec == InitSdCodec /\ [][SdCodecNext]_vars

SpecSdResolve == InitSdResolve /\ [][SdResolveNext]_vars

SpecSdCache == InitSdCache /\ [][SdCacheNext]_vars

SpecSdWait == InitSdWait /\ [][SdWaitNext]_vars

SpecSdWire == InitSdWire /\ [][SdWireNext]_vars

SpecSdSubscribe == InitSdSubscribe /\ [][SdSubscribeNext]_vars

SpecTp == InitTp /\ [][TpNext]_vars

SpecSdServer == InitSdServer /\ [][SdServerNext]_vars

SpecSdClient == InitSdClient /\ [][SdClientNext]_vars

SpecTpTimeout == InitTpTimeout /\ [][TpTimeoutNext]_vars

SpecTpWire == InitTpWire /\ [][TpWireNext]_vars

SpecTpCleanup == InitTpCleanup /\ [][TpCleanupNext]_vars

====
